---------------------------- MODULE Spec2Model ----------------------------
(***************************************************************************)
(* Model of the lab-result ingestion pipeline                              *)
(* (src/pipeline/process_data_cloud.py, src/models.py) and of the batch    *)
(* deletion of records (src/pipeline/delete_records.py).                   *)
(*                                                                         *)
(* State: the five blob containers (landing-zone, quarantine, data, logs,  *)
(* deletion-requests) and the local variables of one process_pipeline run  *)
(* and of one process_deletions run.  One action per stretch of a run      *)
(* between two storage calls that can raise.  Runs follow one another.     *)
(***************************************************************************)
EXTENDS Integers, Sequences, FiniteSets, TLC

VARIABLES
    landing,            \* landing-zone container: blob name -> content or Absent
    quarantine,         \* quarantine container: blob name -> rejected rows
    data,               \* data container: partition path -> stored records
    logs,               \* logs container: blob name -> log entry
    now,                \* wall clock in seconds, as strftime("%Y%m%d_%H%M%S") shows it
    uploads,            \* rows uploaded to the landing zone so far
    pc,                 \* position of the process_pipeline run
    raised_at,          \* position at which the run's exception was raised
    log_entry,          \* process_pipeline: log_entry
    blobs,              \* process_pipeline: blobs (the listing)
    idx,                \* index in blobs of the blob the for loop is at
    all_valid_rows,     \* process_pipeline: all_valid_rows
    all_error_rows,     \* process_pipeline: all_error_rows
    rows_read,          \* history: <<blob name, row>> of every row parsed by the run
    unique_partitions,  \* partitions of the batch the for loop has still to finish
    filename,           \* process_pipeline: filename (of the quarantine blob)
    part_path,          \* process_pipeline: part_path
    history_df,         \* process_pipeline: history_df
    final_df,           \* process_pipeline: final_df / final_batch, still to upload
    log_calls,          \* history: calls of _save_execution_log by the run
    requests,           \* deletion-requests container: blob name -> content or Absent
    dpc,                \* position of the process_deletions run
    del_log_entry,      \* process_deletions: log_entry
    deletion_blobs,     \* process_deletions: deletion_blobs (the listing)
    del_idx,            \* index in deletion_blobs of the blob the for loop is at
    all_deletions,      \* process_deletions: all_deletions, one entry per request file
    del_partitions,     \* process_deletions: unique_partitions still to process
    total_deleted,      \* process_deletions: total_deleted
    partitions_updated, \* process_deletions: partitions_updated
    del_log_calls,      \* history: calls of _save_deletion_log by the run
    processing_log,     \* process_deletions: processing_log, the entries about
                        \* the request files
    rpc,                \* position of the promotion of a corrected quarantine file
    fix_file            \* the corrected file being promoted: its name and content

vars == <<landing, quarantine, data, logs, now, uploads, pc, raised_at, log_entry,
          blobs, idx, all_valid_rows, all_error_rows, rows_read,
          unique_partitions, filename, part_path, history_df, final_df,
          log_calls, requests, dpc, del_log_entry, deletion_blobs, del_idx,
          all_deletions, del_partitions, total_deleted, partitions_updated,
          del_log_calls, processing_log, rpc, fix_file>>

\* the promotion of a corrected quarantine file
fix == <<rpc, fix_file>>
stores == <<landing, quarantine, data, logs>>
locals == <<log_entry, blobs, idx, all_valid_rows, all_error_rows, rows_read,
            unique_partitions, filename, part_path, history_df, final_df>>
\* the deletion-requests container and the process_deletions run
dels == <<requests, dpc, del_log_entry, deletion_blobs, del_idx, all_deletions,
          del_partitions, total_deleted, partitions_updated, del_log_calls,
          processing_log>>

-----------------------------------------------------------------------------
(* Bounds of the model *)

\* rows uploaded to the landing zone in one behaviour, a file without rows
\* counting as one
MaxRows == 3

\* the seconds the wall clock advances in one behaviour
MaxTime == 1

-----------------------------------------------------------------------------
(* Values *)

\* the last element of a non-empty sequence
Last(seq) == seq[Len(seq)]

\* a blob that is not in its container
Absent == [kind |-> "absent", rows |-> <<>>]
\* a blob whose bytes pl.read_csv cannot parse
Garbage == [kind |-> "garbage", rows |-> <<>>]
\* a blob that pl.read_csv parses into the given rows
Csv(rows) == [kind |-> "csv", rows |-> rows]
\* a column the file's header does not have (row.get gives None, `in row` is false)
NoCol == "<nocol>"
\* an empty cell, which pl.read_csv reads as null
Null == "<null>"
\* part_path before the for loop over the partitions
NoPart == <<0, 0>>
\* the test_date None of a valid row
NullDate == <<0, 0, 0>>
\* the partition_path of a row whose test_date is None: pl.format gives null,
\* which the blob name shows as "None"
NonePath == <<-1, -1>>
\* filename before a quarantine blob is written
NoName == <<"none", 0>>
\* no corrected file is being promoted
NoFile == [name |-> "none", content |-> Absent]

\* blob names of the landing zone, in the order list_blobs returns them
FileNames == <<"a.csv", "b.csv">>
\* the file name of the quarantine blob written in second t - 1
\* (f"quarantine_{timestamp}.csv"), under which a corrected file is promoted
QuarantineFiles ==
    [t \in 1..(MaxTime + 1) |-> "quarantine_" \o ToString(t - 1) \o ".csv"]
\* blob names of the deletion-requests container
RequestNames == <<"r.csv", "s.csv">>

\* the test_date strings that are calendar dates, with the date each one denotes
DateOf ==
    ("2024-01-01" :> <<2024, 1, 1>>) @@ ("2024-12-30" :> <<2024, 12, 30>>) @@
    ("2025-01-01" :> <<2025, 1, 1>>) @@ ("2025-01-06" :> <<2025, 1, 6>>) @@
    ("2025-01-08" :> <<2025, 1, 8>>) @@ ("2025-01-13" :> <<2025, 1, 13>>)

\* the viral_load strings that are integers, with their value
IntOf == ("0" :> 0) @@ ("50" :> 50) @@ ("300" :> 300)

-----------------------------------------------------------------------------
(* Calendar: what polars' dt.year() and dt.week() return *)

IsLeap(y) == (y % 4 = 0 /\ y % 100 # 0) \/ y % 400 = 0

DaysInMonth(y, m) ==
    IF m = 2 THEN (IF IsLeap(y) THEN 29 ELSE 28)
    ELSE IF m \in {4, 6, 9, 11} THEN 30 ELSE 31

RECURSIVE DaysBeforeMonth(_, _)
DaysBeforeMonth(y, m) ==
    IF m = 1 THEN 0 ELSE DaysBeforeMonth(y, m - 1) + DaysInMonth(y, m - 1)

DayOfYear(d) == DaysBeforeMonth(d[1], d[2]) + d[3]

\* proleptic Gregorian ordinal, day 1 is 0001-01-01 (a Monday)
Ordinal(d) ==
    LET y == d[1] - 1
    IN  365 * y + (y \div 4) - (y \div 100) + (y \div 400) + DayOfYear(d)

\* 1 = Monday .. 7 = Sunday
IsoWeekday(d) == ((Ordinal(d) - 1) % 7) + 1

\* number of ISO weeks of year y: 53 when 1 January is a Thursday, or a
\* Wednesday in a leap year
WeeksInYear(y) ==
    LET jan1 == IsoWeekday(<<y, 1, 1>>)
    IN  IF jan1 = 4 \/ (jan1 = 3 /\ IsLeap(y)) THEN 53 ELSE 52

\* ISO-8601 week number (polars dt.week())
IsoWeek(d) ==
    LET w == (DayOfYear(d) - IsoWeekday(d) + 10) \div 7
    IN  IF w < 1 THEN WeeksInYear(d[1] - 1)
        ELSE IF w > WeeksInYear(d[1]) THEN 1
        ELSE w

\* calendar year (polars dt.year())
Year(d) == d[1]

\* pl.format("year={}/week={}", dt.year(), dt.week()): the pair <<Y, W>> stands
\* for the string "year=Y/week=W", which determines Y and W
PartitionPath(d) == IF d = NullDate THEN NonePath ELSE <<Year(d), IsoWeek(d)>>

-----------------------------------------------------------------------------
(* Record schema and validation (src/models.py, process_pipeline lines 68-109) *)

\* allowed result codes compared without regard to case
AllowedResultsAnyCase == {"POS", "NEG", "N/A", "pos", "neg", "n/a"}

\* LabResult.check_result_code: allowed
AllowedResults == {"POS", "NEG", "N/A"}
\* LabResult.sample_status: Literal['keep', 'remove']
AllowedStatus == {"keep", "remove"}

\* a validation that stops at the first field that fails
LabResultFirstError(row) ==
    IF row.sample_id \in {NoCol, Null} THEN <<"sample_id">>
    ELSE IF row.test_date \notin DOMAIN DateOf THEN <<"test_date">>
    ELSE IF row.result \notin {"POS", "NEG", "N/A"} THEN <<"result">>
    ELSE IF row.viral_load \notin DOMAIN IntOf THEN <<"viral_load">>
    ELSE IF row.sample_status \notin {"keep", "remove", NoCol} THEN <<"sample_status">>
    ELSE <<>>

\* The fields of LabResult(**row) that fail, in field order.  pydantic checks
\* every field and str(e) reports all the failures.
LabResultErrors(row) ==
    (IF row.sample_id \in {NoCol, Null} THEN <<"sample_id">> ELSE <<>>) \o
    (IF row.test_date \notin DOMAIN DateOf THEN <<"test_date">> ELSE <<>>) \o
    (IF row.result \notin AllowedResults THEN <<"result">> ELSE <<>>) \o
    (IF row.viral_load \notin DOMAIN IntOf THEN <<"viral_load">> ELSE <<>>) \o
    (IF row.sample_status \notin AllowedStatus \cup {NoCol}
        THEN <<"sample_status">> ELSE <<>>)

\* valid_sample.model_dump(): the typed record, sample_status defaulting to keep
ModelDump(row) ==
    [sample_id     |-> row.sample_id,
     test_date     |-> DateOf[row.test_date],
     result        |-> row.result,
     viral_load    |-> IntOf[row.viral_load],
     sample_status |-> IF row.sample_status = NoCol THEN "keep"
                       ELSE row.sample_status]

\* row.get('sample_status') == 'remove'
IsTombstoneRow(row) == row.sample_status = "remove"

\* 'sample_id' in row and 'test_date' in row: the columns exist
TombstoneHasFields(row) == row.sample_id # NoCol /\ row.test_date # NoCol

\* datetime.strptime(row['test_date'], '%Y-%m-%d') raises ValueError; a null
\* cell is no str and is taken as it is
TombstoneDateFails(row) == row.test_date # Null /\ row.test_date \notin DOMAIN DateOf

\* tombstone_record, with the dummy result and viral_load
TombstoneRecord(row) ==
    [sample_id     |-> row.sample_id,
     test_date     |-> IF row.test_date = Null THEN NullDate
                       ELSE DateOf[row.test_date],
     result        |-> "N/A",
     viral_load    |-> 0,
     sample_status |-> "remove"]

\* bad_row: the row with pipeline_error and source_file added
BadRow(row, error, name) ==
    [row |-> row, pipeline_error |-> error, source_file |-> name]

\* the validate loop body with an except branch that drops the row
ClassifyDropsRejected(row, name) ==
    IF IsTombstoneRow(row)
    THEN [valid |-> <<TombstoneRecord(row)>>, error |-> <<>>]
    ELSE IF LabResultErrors(row) = <<>>
         THEN [valid |-> <<ModelDump(row)>>, error |-> <<>>]
         ELSE [valid |-> <<>>, error |-> <<>>]

\* One pass of the validate loop body (lines 68-109) over a row of blob `name`:
\* what it appends to all_valid_rows and to all_error_rows.
Classify(row, name) ==
    IF IsTombstoneRow(row)
    THEN IF TombstoneHasFields(row)
         THEN IF TombstoneDateFails(row)
              THEN [valid |-> <<>>,
                    error |-> <<BadRow(row, <<"tombstone_invalid_test_date">>, name)>>]
              ELSE [valid |-> <<TombstoneRecord(row)>>, error |-> <<>>]
         ELSE [valid |-> <<>>,
               error |-> <<BadRow(row, <<"tombstone_missing_fields">>, name)>>]
    ELSE IF LabResultErrors(row) = <<>>
         THEN [valid |-> <<ModelDump(row)>>, error |-> <<>>]
         ELSE [valid |-> <<>>, error |-> <<BadRow(row, LabResultErrors(row), name)>>]

\* The validate loop over the rows of one file, in row order.
RECURSIVE ValidateLoop(_, _)
ValidateLoop(rows, name) ==
    IF rows = <<>> THEN [valid |-> <<>>, error |-> <<>>]
    ELSE LET c == Classify(Head(rows), name)
             r == ValidateLoop(Tail(rows), name)
         IN  [valid |-> c.valid \o r.valid, error |-> c.error \o r.error]

-----------------------------------------------------------------------------
(* Upsert of one partition (process_pipeline lines 141-201) *)

\* set(df["sample_id"].to_list())
SampleIdsOf(df) == {df[i].sample_id : i \in DOMAIN df}

\* df.unique(subset=["sample_id"], keep="first"): the first row stays
RECURSIVE UniqueKeepFirst(_)
UniqueKeepFirst(df) ==
    IF df = <<>> THEN <<>>
    ELSE <<Head(df)>> \o
         UniqueKeepFirst(SelectSeq(Tail(df),
                                   LAMBDA r : r.sample_id # Head(df).sample_id))

\* df.unique(subset=["sample_id"], keep="last"): of the rows with one sample_id
\* the last stays.  polars leaves the order of the result open; every sample_id
\* occurs once in it, so no later step depends on that order, and the rows are
\* kept here in the order of df.
RECURSIVE UniqueKeepLast(_)
UniqueKeepLast(df) ==
    IF df = <<>> THEN <<>>
    ELSE IF \E j \in 2..Len(df) : df[j].sample_id = Head(df).sample_id
         THEN UniqueKeepLast(Tail(df))
         ELSE <<Head(df)>> \o UniqueKeepLast(Tail(df))

\* a filter that keeps the tombstones
FilterNothing(df) == df

\* df.filter(pl.col("sample_status") != "remove")
FilterNotRemove(df) == SelectSeq(df, LAMBDA r : r.sample_status # "remove")

\* full_df.filter(pl.col("partition_path") == part_path); the comparison with
\* the part_path None is null for every row and the filter keeps none
NewBatch(valid_rows, path) ==
    SelectSeq(valid_rows,
              LAMBDA r : path # NonePath /\ PartitionPath(r.test_date) = path)

\* full_df["partition_path"].unique()
UniquePartitions(valid_rows) ==
    {PartitionPath(valid_rows[i].test_date) : i \in DOMAIN valid_rows}

\* lines 151-180: the partition object exists
MergeExisting(history, new_batch_df) ==
    LET combined_df  == history \o new_batch_df
        deduped      == UniqueKeepLast(combined_df)
        existing_ids == SampleIdsOf(history)
        new_batch_ids == SampleIdsOf(new_batch_df)
        kept         == FilterNotRemove(deduped)
    IN  [final    |-> kept,
         inserted |-> Cardinality(new_batch_ids \ existing_ids),
         updated  |-> Cardinality(new_batch_ids \cap existing_ids),
         deleted  |-> Len(deduped) - Len(kept)]

\* a new partition object written with the whole batch, tombstones included
MergeNewKeepsTombstones(new_batch_df) ==
    [final    |-> new_batch_df,
     inserted |-> Len(new_batch_df),
     updated  |-> 0,
     deleted  |-> 0]

\* lines 189-196: the partition object does not exist
MergeNew(new_batch_df) ==
    LET final_batch == FilterNotRemove(new_batch_df)
    IN  [final    |-> final_batch,
         inserted |-> Len(final_batch),
         updated  |-> 0,
         deleted  |-> 0]

-----------------------------------------------------------------------------
(* The run of process_pipeline *)

\* the counters of log_entry, all zero
ZeroLogEntry ==
    [execution_timestamp |-> 0,
     files_processed     |-> 0,
     rows_quarantined    |-> 0,
     rows_inserted       |-> 0,
     rows_updated        |-> 0,
     rows_deleted        |-> 0]

\* log_entry as initialised at lines 29-37
NewLogEntry == [ZeroLogEntry EXCEPT !.execution_timestamp = now]

\* list(landing_client.list_blobs()): the names present, in name order
ListBlobs == SelectSeq(FileNames \o QuarantineFiles, LAMBDA n : landing[n] # Absent)

\* _save_execution_log, called by a run that has called it `calls` times:
\* uploads the entry under the name of the current second, overwriting; an
\* exception of the upload is caught and printed
SaveExecutionLog(entry, calls) ==
    /\ log_calls' = calls + 1
    /\ \/ logs' = (<<"execution", now>> :> entry) @@ logs
       \/ logs' = logs

\* the locals of a run that has listed nothing yet
ResetLocals ==
    /\ all_valid_rows' = <<>>
    /\ all_error_rows' = <<>>
    /\ rows_read' = <<>>
    /\ unique_partitions' = {}
    /\ filename' = NoName
    /\ part_path' = NoPart
    /\ history_df' = <<>>
    /\ final_df' = <<>>

\* the for loop over blobs moves on from blob i
NextBlob(i) ==
    IF i < Len(blobs)
    THEN idx' = i + 1 /\ pc' = "download"
    ELSE idx' = 0 /\ pc' = "quarantine"

\* the return of the empty run without the call of _save_execution_log
StartEmptyNoLog ==
    /\ pc = "idle"
    /\ dpc = "idle"
    /\ ListBlobs = <<>>
    /\ log_entry' = NewLogEntry
    /\ log_calls' = 0
    /\ ResetLocals
    /\ blobs' = <<>>
    /\ idx' = 0
    /\ pc' = "done"
    /\ raised_at' = "none"
    /\ UNCHANGED <<fix, dels, stores, now, uploads>>

\* lines 27-52, no file listed: log the empty run and return
StartEmpty ==
    /\ pc = "idle"
    /\ dpc = "idle"
    /\ ListBlobs = <<>>
    /\ log_entry' = NewLogEntry
    /\ SaveExecutionLog(NewLogEntry, 0)
    /\ ResetLocals
    /\ blobs' = <<>>
    /\ idx' = 0
    /\ pc' = "done"
    /\ raised_at' = "none"
    /\ UNCHANGED <<fix, dels, landing, quarantine, data, now, uploads>>

\* lines 27-52, files listed
StartRun ==
    /\ pc = "idle"
    /\ dpc = "idle"
    /\ ListBlobs # <<>>
    /\ log_calls' = 0
    /\ log_entry' = [NewLogEntry EXCEPT !.files_processed = Len(ListBlobs)]
    /\ ResetLocals
    /\ blobs' = ListBlobs
    /\ idx' = 1
    /\ pc' = "download"
    /\ raised_at' = "none"
    /\ UNCHANGED <<fix, dels, stores, now, uploads>>

\* an except branch that deletes the unreadable blob before it goes on
ReadCsvFailsDeletes ==
    /\ pc = "download"
    /\ landing[blobs[idx]].kind = "garbage"
    /\ landing' = [landing EXCEPT ![blobs[idx]] = Absent]
    /\ NextBlob(idx)
    /\ UNCHANGED <<fix, dels, log_calls, quarantine, data, logs, now, uploads, raised_at,
                   log_entry, blobs, all_valid_rows, all_error_rows, rows_read,
                   unique_partitions, filename, part_path, history_df, final_df>>

\* lines 57-65: pl.read_csv raises on the downloaded bytes; the file is
\* skipped and stays in the landing zone
ReadCsvFails ==
    /\ pc = "download"
    /\ landing[blobs[idx]].kind = "garbage"
    /\ NextBlob(idx)
    /\ UNCHANGED <<fix, dels, log_calls, stores, now, uploads, raised_at, log_entry, blobs,
                   all_valid_rows, all_error_rows, rows_read,
                   unique_partitions, filename, part_path, history_df, final_df>>

\* the classification of a file with the rejected rows uploaded at once
ValidateFileQuarantines ==
    /\ pc = "download"
    /\ landing[blobs[idx]].kind = "csv"
    /\ LET name == blobs[idx]
           rows == landing[name].rows
           c    == ValidateLoop(rows, name)
       IN  /\ all_valid_rows' = all_valid_rows \o c.valid
           /\ all_error_rows' = all_error_rows \o c.error
           /\ rows_read' = rows_read \o [i \in DOMAIN rows |-> <<name, rows[i]>>]
           /\ quarantine' = IF c.error = <<>> THEN quarantine
                            ELSE (<<"quarantine", now>> :> c.error) @@ quarantine
    /\ pc' = "delete"
    /\ UNCHANGED <<fix, dels, log_calls, landing, data, logs, now, uploads, raised_at, log_entry, blobs,
                   idx, unique_partitions, filename, part_path, history_df,
                   final_df>>

\* lines 57-109: download the blob, parse it and classify its rows
ValidateFile ==
    /\ pc = "download"
    /\ landing[blobs[idx]].kind = "csv"
    /\ LET name == blobs[idx]
           rows == landing[name].rows
           c    == ValidateLoop(rows, name)
       IN  /\ all_valid_rows' = all_valid_rows \o c.valid
           /\ all_error_rows' = all_error_rows \o c.error
           /\ rows_read' = rows_read \o [i \in DOMAIN rows |-> <<name, rows[i]>>]
    /\ pc' = "delete"
    /\ UNCHANGED <<fix, dels, log_calls, stores, now, uploads, raised_at, log_entry, blobs, idx,
                   unique_partitions, filename, part_path, history_df, final_df>>

\* the for loop without the delete_blob() call
DeleteBlobSkipped ==
    /\ pc = "delete"
    /\ NextBlob(idx)
    /\ UNCHANGED <<fix, dels, log_calls, stores, now, uploads, raised_at, log_entry,
                   blobs, all_valid_rows, all_error_rows, rows_read,
                   unique_partitions, filename, part_path, history_df, final_df>>

\* a delete_blob() that is called only for a file without rejected rows
DeleteBlobIfClean ==
    /\ pc = "delete"
    /\ landing[blobs[idx]] # Absent
    /\ landing' = IF all_error_rows = <<>>
                  THEN [landing EXCEPT ![blobs[idx]] = Absent]
                  ELSE landing
    /\ NextBlob(idx)
    /\ UNCHANGED <<fix, dels, log_calls, quarantine, data, logs, now, uploads, raised_at,
                   log_entry, blobs, all_valid_rows, all_error_rows, rows_read,
                   unique_partitions, filename, part_path, history_df, final_df>>

\* lines 111-112: blob_client.delete_blob()
DeleteBlob ==
    /\ pc = "delete"
    /\ landing[blobs[idx]] # Absent
    /\ landing' = [landing EXCEPT ![blobs[idx]] = Absent]
    /\ NextBlob(idx)
    /\ UNCHANGED <<fix, dels, log_calls, quarantine, data, logs, now, uploads, raised_at, log_entry,
                   blobs, all_valid_rows, all_error_rows, rows_read,
                   unique_partitions, filename, part_path, history_df, final_df>>

\* the quarantine blob written with the rejected rows of the last file only
UploadQuarantineLastFile ==
    IF all_error_rows # <<>>
    THEN /\ filename' = <<"quarantine", now>>
         /\ quarantine' =
               (filename' :> SelectSeq(all_error_rows,
                    LAMBDA e : e.source_file = Last(all_error_rows).source_file))
               @@ quarantine
    ELSE /\ filename' = filename
         /\ quarantine' = quarantine

\* the quarantine blob written without the test `if all_error_rows`
UploadQuarantineAlways ==
    /\ filename' = <<"quarantine", now>>
    /\ quarantine' = (filename' :> all_error_rows) @@ quarantine

\* lines 114-122: the rejected rows go to one blob named after the current second
UploadQuarantine ==
    IF all_error_rows # <<>>
    THEN /\ filename' = <<"quarantine", now>>
         /\ quarantine' = (filename' :> all_error_rows) @@ quarantine
    ELSE /\ filename' = filename
         /\ quarantine' = quarantine

\* lines 114-127, no valid row: write the quarantine blob, log and return
HandleBadDataOnly ==
    /\ pc = "quarantine"
    /\ all_valid_rows = <<>>
    /\ UploadQuarantine
    /\ log_entry' = [log_entry EXCEPT !.rows_quarantined = Len(all_error_rows)]
    /\ SaveExecutionLog(log_entry', log_calls)
    /\ pc' = "done"
    /\ UNCHANGED <<fix, dels, landing, data, now, uploads, raised_at, blobs, idx,
                   all_valid_rows, all_error_rows, rows_read,
                   unique_partitions, part_path, history_df, final_df>>

\* lines 114-149: write the quarantine blob, compute the partitions of the valid
\* rows and enter the for loop with one of them (unique() fixes no order)
HandleBadData ==
    /\ pc = "quarantine"
    /\ all_valid_rows # <<>>
    /\ UploadQuarantine
    /\ log_entry' = [log_entry EXCEPT !.rows_quarantined = Len(all_error_rows)]
    /\ unique_partitions' = UniquePartitions(all_valid_rows)
    /\ part_path' \in unique_partitions'
    /\ pc' = "merge"
    /\ UNCHANGED <<fix, dels, log_calls, landing, data, logs, now, uploads, raised_at, blobs, idx,
                   all_valid_rows, all_error_rows, rows_read, history_df, final_df>>

\* lines 144-180 and 189-196: read the partition object if it exists, merge the
\* batch into it and count
MergePartition ==
    /\ pc = "merge"
    /\ LET new_batch_df == NewBatch(all_valid_rows, part_path)
           m == IF part_path \in DOMAIN data
                THEN MergeExisting(data[part_path], new_batch_df)
                ELSE MergeNew(new_batch_df)
       IN  /\ history_df' = IF part_path \in DOMAIN data THEN data[part_path]
                                                          ELSE history_df
           /\ final_df' = m.final
           /\ log_entry' = [log_entry EXCEPT
                               !.rows_inserted = @ + m.inserted,
                               !.rows_updated  = @ + m.updated,
                               !.rows_deleted  = @ + m.deleted]
    /\ pc' = "upload"
    /\ UNCHANGED <<fix, dels, log_calls, stores, now, uploads, raised_at, blobs, idx, all_valid_rows,
                   all_error_rows, rows_read, unique_partitions, filename,
                   part_path>>

\* an upload that is conditional on the partition object being the one read
\* (as with an ETag): a partition changed since the read is not overwritten
UploadPartitionIfUnchanged ==
    /\ pc = "upload"
    /\ data' = IF \/ part_path \notin DOMAIN data
                  \/ data[part_path] = history_df
               THEN (part_path :> final_df) @@ data
               ELSE data
    /\ unique_partitions' = unique_partitions \ {part_path}
    /\ IF unique_partitions' = {}
       THEN /\ part_path' = part_path
            /\ SaveExecutionLog(log_entry, log_calls)
            /\ pc' = "done"
       ELSE /\ part_path' \in unique_partitions'
            /\ logs' = logs
            /\ log_calls' = log_calls
            /\ pc' = "merge"
    /\ UNCHANGED <<fix, dels, landing, quarantine, now, uploads, raised_at, log_entry, blobs,
                   idx, all_valid_rows, all_error_rows, rows_read, filename,
                   history_df, final_df>>

\* an upload that makes the sample_ids it stores unique across the store: the
\* records of these sample_ids are removed from every other partition
UploadPartitionMovesRecords ==
    /\ pc = "upload"
    /\ data' = (part_path :> final_df) @@
                   [p \in DOMAIN data |->
                       SelectSeq(data[p],
                                 LAMBDA r : r.sample_id \notin SampleIdsOf(final_df))]
    /\ unique_partitions' = unique_partitions \ {part_path}
    /\ IF unique_partitions' = {}
       THEN /\ part_path' = part_path
            /\ SaveExecutionLog(log_entry, log_calls)
            /\ pc' = "done"
       ELSE /\ part_path' \in unique_partitions'
            /\ logs' = logs
            /\ log_calls' = log_calls
            /\ pc' = "merge"
    /\ UNCHANGED <<fix, dels, landing, quarantine, now, uploads, raised_at, log_entry, blobs,
                   idx, all_valid_rows, all_error_rows, rows_read, filename,
                   history_df, final_df>>

\* lines 182-187 and 198-206: upload the partition object, overwriting; then the
\* next partition, or after the last one the execution log
UploadPartition ==
    /\ pc = "upload"
    /\ data' = (part_path :> final_df) @@ data
    /\ unique_partitions' = unique_partitions \ {part_path}
    /\ IF unique_partitions' = {}
       THEN /\ part_path' = part_path
            /\ SaveExecutionLog(log_entry, log_calls)
            /\ pc' = "done"
       ELSE /\ part_path' \in unique_partitions'
            /\ logs' = logs
            /\ log_calls' = log_calls
            /\ pc' = "merge"
    /\ UNCHANGED <<fix, dels, landing, quarantine, now, uploads, raised_at, log_entry, blobs,
                   idx, all_valid_rows, all_error_rows, rows_read, filename,
                   history_df, final_df>>

\* A storage call raises (download_blob, delete_blob, upload_blob, exists,
\* read_parquet): nothing in process_pipeline catches it, the run ends there
\* without an execution log.
Raise ==
    /\ \/ pc \in {"download", "delete", "merge", "upload"}
       \/ pc = "quarantine" /\ all_error_rows # <<>>
    /\ raised_at' = pc
    /\ pc' = "failed"
    /\ UNCHANGED <<fix, dels, log_calls, stores, now, uploads, locals>>

\* The process ends, by the return of process_pipeline or by the exception,
\* and its locals with it.
Exit ==
    /\ pc \in {"done", "failed"}
    /\ pc' = "idle"
    /\ raised_at' = "none"
    /\ log_entry' = ZeroLogEntry
    /\ ResetLocals
    /\ blobs' = <<>>
    /\ idx' = 0
    /\ log_calls' = 0
    /\ UNCHANGED <<fix, dels, stores, now, uploads>>

-----------------------------------------------------------------------------
(* The run of process_deletions (src/pipeline/delete_records.py) *)

\* the process_pipeline run: its position, its locals and its history
pipe == <<pc, raised_at, locals, log_calls>>

\* a request blob that parses as CSV but lacks a required column: a file with
\* the sample_id column only and the row S1
NoColumns ==
    [kind |-> "nocolumns", rows |-> <<[sample_id |-> "S1", test_date |-> NoCol]>>]

\* the counters of the deletion log_entry, all zero
ZeroDeletionLogEntry ==
    [execution_timestamp |-> 0,
     files_processed     |-> 0,
     rows_deleted        |-> 0,
     partitions_updated  |-> 0]

\* a log_entry initialised with one file counted
DeletionLogEntryOneFile ==
    [ZeroDeletionLogEntry EXCEPT !.execution_timestamp = now,
                                 !.files_processed = 1]

\* log_entry as initialised at lines 31-38
NewDeletionLogEntry == [ZeroDeletionLogEntry EXCEPT !.execution_timestamp = now]

\* list(deletion_client.list_blobs())
ListRequests == SelectSeq(RequestNames, LAMBDA n : requests[n] # Absent)

\* _save_deletion_log, called by a run that has called it `calls` times: uploads
\* the entry under the name of the current second, overwriting; an exception
\* of the upload is caught and printed
SaveDeletionLog(entry, calls) ==
    /\ del_log_calls' = calls + 1
    /\ \/ logs' = (<<"deletion", now>> :> entry) @@ logs
       \/ logs' = logs

\* the locals of a run that has read no request yet
ResetDeletionLocals ==
    /\ all_deletions' = <<>>
    /\ del_partitions' = {}
    /\ total_deleted' = 0
    /\ partitions_updated' = 0
    /\ processing_log' = <<>>

\* the for loop over deletion_blobs moves on from blob i
NextRequest(i) ==
    IF i < Len(deletion_blobs)
    THEN del_idx' = i + 1 /\ dpc' = "read"
    ELSE del_idx' = 0 /\ dpc' = "apply"

\* lines 31-47, no request file listed: log the empty run and return
DeletionsStartEmpty ==
    /\ dpc = "idle"
    /\ pc = "idle"
    /\ ListRequests = <<>>
    /\ del_log_entry' = NewDeletionLogEntry
    /\ SaveDeletionLog(NewDeletionLogEntry, 0)
    /\ ResetDeletionLocals
    /\ deletion_blobs' = <<>>
    /\ del_idx' = 0
    /\ dpc' = "done"
    /\ UNCHANGED <<fix, pipe, landing, quarantine, data, requests, now, uploads>>

\* lines 31-54, request files listed
DeletionsStartRun ==
    /\ dpc = "idle"
    /\ pc = "idle"
    /\ ListRequests # <<>>
    /\ del_log_entry' = [NewDeletionLogEntry EXCEPT
                            !.files_processed = Len(ListRequests)]
    /\ ResetDeletionLocals
    /\ deletion_blobs' = ListRequests
    /\ del_idx' = 1
    /\ del_log_calls' = 0
    /\ dpc' = "read"
    /\ UNCHANGED <<fix, pipe, stores, requests, now, uploads>>

\* pl.read_csv, the check of the columns or str.strptime (strict) fails
RequestFails(content) ==
    \/ content.kind \in {"garbage", "nocolumns"}
    \/ \E i \in DOMAIN content.rows : content.rows[i].test_date \notin DOMAIN DateOf

\* deletion_df: sample_id and the parsed test_date of every row
DeletionDf(rows) ==
    [i \in DOMAIN rows |->
        [sample_id |-> rows[i].sample_id, test_date |-> DateOf[rows[i].test_date]]]

\* a skip that leaves the for loop instead of going on with the next file
RequestSkippedEndsLoop ==
    /\ dpc = "read"
    /\ RequestFails(requests[deletion_blobs[del_idx]])
    /\ processing_log' =
          Append(processing_log,
                 <<IF requests[deletion_blobs[del_idx]].kind = "nocolumns"
                   THEN "skipped" ELSE "error", deletion_blobs[del_idx]>>)
    /\ del_idx' = 0
    /\ dpc' = "apply"
    /\ UNCHANGED <<fix, pipe, stores, requests, now, uploads, del_log_entry,
                   deletion_blobs, all_deletions, del_partitions, total_deleted,
                   partitions_updated, del_log_calls>>

\* lines 57-70 and 85-88: the request file is skipped and stays in the container
RequestSkipped ==
    /\ dpc = "read"
    /\ RequestFails(requests[deletion_blobs[del_idx]])
    /\ processing_log' =
          Append(processing_log,
                 <<IF requests[deletion_blobs[del_idx]].kind = "nocolumns"
                   THEN "skipped" ELSE "error", deletion_blobs[del_idx]>>)
    /\ NextRequest(del_idx)
    /\ UNCHANGED <<fix, pipe, stores, requests, now, uploads, del_log_entry,
                   deletion_blobs, all_deletions, del_partitions, total_deleted,
                   partitions_updated, del_log_calls>>

\* the requests of the file are collected and the file is left in the container
RequestReadKeepsFile ==
    /\ dpc = "read"
    /\ ~RequestFails(requests[deletion_blobs[del_idx]])
    /\ all_deletions' =
          Append(all_deletions, DeletionDf(requests[deletion_blobs[del_idx]].rows))
    /\ processing_log' = Append(processing_log, <<"processed", deletion_blobs[del_idx]>>)
    /\ NextRequest(del_idx)
    /\ UNCHANGED <<fix, pipe, stores, requests, now, uploads, del_log_entry,
                   deletion_blobs, del_partitions, total_deleted,
                   partitions_updated, del_log_calls>>

\* lines 57-83: the requests of the file are collected and the file is deleted
RequestRead ==
    /\ dpc = "read"
    /\ ~RequestFails(requests[deletion_blobs[del_idx]])
    /\ all_deletions' =
          Append(all_deletions, DeletionDf(requests[deletion_blobs[del_idx]].rows))
    /\ requests' = [requests EXCEPT ![deletion_blobs[del_idx]] = Absent]
    /\ processing_log' = Append(processing_log, <<"processed", deletion_blobs[del_idx]>>)
    /\ NextRequest(del_idx)
    /\ UNCHANGED <<fix, pipe, stores, now, uploads, del_log_entry, deletion_blobs,
                   del_partitions, total_deleted, partitions_updated,
                   del_log_calls>>

\* lines 57-88: the requests of the file are collected, delete_blob() raises and
\* the except branch goes on to the next file
RequestReadDeleteFails ==
    /\ dpc = "read"
    /\ ~RequestFails(requests[deletion_blobs[del_idx]])
    /\ all_deletions' =
          Append(all_deletions, DeletionDf(requests[deletion_blobs[del_idx]].rows))
    /\ processing_log' = processing_log \o <<<<"processed", deletion_blobs[del_idx]>>,
                                              <<"error", deletion_blobs[del_idx]>>>>
    /\ NextRequest(del_idx)
    /\ UNCHANGED <<fix, pipe, stores, requests, now, uploads, del_log_entry,
                   deletion_blobs, del_partitions, total_deleted,
                   partitions_updated, del_log_calls>>

\* lines 90-94, no request file was read: log and return
NoValidRequests ==
    /\ dpc = "apply"
    /\ all_deletions = <<>>
    /\ SaveDeletionLog(del_log_entry, del_log_calls)
    /\ dpc' = "done"
    /\ UNCHANGED <<processing_log, fix, pipe, landing, quarantine, data, requests, now, uploads,
                   del_log_entry, deletion_blobs, del_idx, all_deletions,
                   del_partitions, total_deleted, partitions_updated>>

\* pl.concat(all_deletions)
RECURSIVE Concat(_)
Concat(dfs) == IF dfs = <<>> THEN <<>> ELSE Head(dfs) \o Concat(Tail(dfs))

\* the partition path with the ISO week-numbering year, which differs from the
\* calendar year in the days around new year
DeletionIsoPartitionPath(d) ==
    LET w == (DayOfYear(d) - IsoWeekday(d) + 10) \div 7
        y == IF w < 1 THEN d[1] - 1
             ELSE IF w > WeeksInYear(d[1]) THEN d[1] + 1
             ELSE d[1]
    IN  <<y, IsoWeek(d)>>

\* lines 103-107: pl.format("year={}/week={}", dt.year(), dt.week()) on the
\* test_date of a request, null for a null test_date
DeletionPartitionPath(d) ==
    IF d = NullDate THEN NonePath ELSE <<Year(d), IsoWeek(d)>>

\* line 109: deletions_df["partition_path"].unique()
DeletionPartitions(df) ==
    {DeletionPartitionPath(df[i].test_date) : i \in DOMAIN df}

\* line 122: deletions_df.filter(pl.col("partition_path") == part_path); a null
\* path compares to null and is filtered out
PartitionDeletions(df, path) ==
    SelectSeq(df, LAMBDA r : /\ DeletionPartitionPath(r.test_date) # NonePath
                             /\ DeletionPartitionPath(r.test_date) = path)

\* lines 96-116: the partitions of the requested test_dates
ComputePartitions ==
    /\ dpc = "apply"
    /\ all_deletions # <<>>
    /\ del_partitions' = DeletionPartitions(Concat(all_deletions))
    /\ dpc' = "partitions"
    /\ UNCHANGED <<processing_log, fix, pipe, stores, requests, now, uploads, del_log_entry,
                   deletion_blobs, del_idx, all_deletions, total_deleted,
                   partitions_updated, del_log_calls>>

\* the sample_ids requested with any test_date
IdsOfAllDeletions(path) == SampleIdsOf(Concat(all_deletions))

\* ids_to_delete: the sample_ids requested with a test_date of the partition
IdsToDelete(path) == SampleIdsOf(PartitionDeletions(Concat(all_deletions), path))

\* the filter without the negation: the requested records stay
FilterIn(df, ids) == SelectSeq(df, LAMBDA r : r.sample_id \in ids)

\* history_df.filter(~pl.col("sample_id").is_in(ids_to_delete))
FilterNotIn(df, ids) == SelectSeq(df, LAMBDA r : r.sample_id \notin ids)

\* lines 118-132: the partition object of a requested partition does not exist
PartitionNotFound ==
    /\ dpc = "partitions"
    /\ \E path \in del_partitions :
          /\ path \notin DOMAIN data
          /\ del_partitions' = del_partitions \ {path}
    /\ UNCHANGED <<processing_log, fix, pipe, stores, requests, now, uploads, dpc, del_log_entry,
                   deletion_blobs, del_idx, all_deletions, total_deleted,
                   partitions_updated, del_log_calls>>

\* the partition object is read, filtered and uploaded, and counted as
\* updated, also when no row was removed
PartitionFilteredAlwaysUploads ==
    /\ dpc = "partitions"
    /\ \E path \in del_partitions :
          /\ path \in DOMAIN data
          /\ LET filtered_df  == FilterNotIn(data[path], IdsToDelete(path))
                 rows_deleted == Len(data[path]) - Len(filtered_df)
             IN  /\ data' = [data EXCEPT ![path] = filtered_df]
                 /\ total_deleted' = total_deleted + rows_deleted
                 /\ partitions_updated' = partitions_updated + 1
          /\ del_partitions' = del_partitions \ {path}
    /\ UNCHANGED <<processing_log, fix, pipe, landing, quarantine, logs, requests, now,
                   uploads, dpc, del_log_entry, deletion_blobs, del_idx,
                   all_deletions, del_log_calls>>

\* a filter on sample_id and test_date: a record is removed only if a request
\* names its sample_id with its own test_date
PartitionFilteredByDate ==
    /\ dpc = "partitions"
    /\ \E path \in del_partitions :
          /\ path \in DOMAIN data
          /\ LET deletions_df == PartitionDeletions(Concat(all_deletions), path)
                 filtered_df  ==
                     SelectSeq(data[path],
                               LAMBDA r : \A i \in DOMAIN deletions_df :
                                   \/ deletions_df[i].sample_id # r.sample_id
                                   \/ deletions_df[i].test_date # r.test_date)
                 rows_deleted == Len(data[path]) - Len(filtered_df)
             IN  IF rows_deleted > 0
                 THEN /\ data' = [data EXCEPT ![path] = filtered_df]
                      /\ total_deleted' = total_deleted + rows_deleted
                      /\ partitions_updated' = partitions_updated + 1
                 ELSE UNCHANGED <<data, total_deleted, partitions_updated>>
          /\ del_partitions' = del_partitions \ {path}
    /\ UNCHANGED <<processing_log, fix, pipe, landing, quarantine, logs, requests, now, uploads, dpc,
                   del_log_entry, deletion_blobs, del_idx, all_deletions,
                   del_log_calls>>

\* lines 118-169: the partition object is read and filtered, and uploaded if
\* rows were removed
PartitionFiltered ==
    /\ dpc = "partitions"
    /\ \E path \in del_partitions :
          /\ path \in DOMAIN data
          /\ LET filtered_df  == FilterNotIn(data[path], IdsToDelete(path))
                 rows_deleted == Len(data[path]) - Len(filtered_df)
             IN  IF rows_deleted > 0
                 THEN /\ data' = [data EXCEPT ![path] = filtered_df]
                      /\ total_deleted' = total_deleted + rows_deleted
                      /\ partitions_updated' = partitions_updated + 1
                 ELSE UNCHANGED <<data, total_deleted, partitions_updated>>
          /\ del_partitions' = del_partitions \ {path}
    /\ UNCHANGED <<processing_log, fix, pipe, landing, quarantine, logs, requests, now, uploads, dpc,
                   del_log_entry, deletion_blobs, del_idx, all_deletions,
                   del_log_calls>>

\* lines 171-180: the counters go to log_entry and the log is saved
DeletionsComplete ==
    /\ dpc = "partitions"
    /\ del_partitions = {}
    /\ del_log_entry' = [del_log_entry EXCEPT
                            !.rows_deleted = total_deleted,
                            !.partitions_updated = partitions_updated]
    /\ SaveDeletionLog(del_log_entry', del_log_calls)
    /\ dpc' = "done"
    /\ UNCHANGED <<processing_log, fix, pipe, landing, quarantine, data, requests, now, uploads,
                   deletion_blobs, del_idx, all_deletions, del_partitions,
                   total_deleted, partitions_updated>>

\* A storage call outside the try block raises (download_blob at line 60,
\* exists, download_blob or upload_blob at lines 129-165): nothing in
\* process_deletions catches it, the run ends there without a deletion log.
DeletionsRaise ==
    /\ \/ dpc = "read"
       \/ dpc = "partitions" /\ del_partitions # {}
    /\ dpc' = "failed"
    /\ UNCHANGED <<processing_log, fix, pipe, stores, requests, now, uploads, del_log_entry,
                   deletion_blobs, del_idx, all_deletions, del_partitions,
                   total_deleted, partitions_updated, del_log_calls>>

\* The process ends, by the return of process_deletions or by the exception.
DeletionsExit ==
    /\ dpc \in {"done", "failed"}
    /\ dpc' = "idle"
    /\ del_log_entry' = ZeroDeletionLogEntry
    /\ ResetDeletionLocals
    /\ deletion_blobs' = <<>>
    /\ del_idx' = 0
    /\ del_log_calls' = 0
    /\ UNCHANGED <<fix, pipe, stores, requests, now, uploads>>

-----------------------------------------------------------------------------
(* Environment *)

\* the rows of one CSV file have the columns of its header: a column is
\* missing in all of them or in none
SameColumns(rows) ==
    \A f \in {"sample_id", "test_date", "result", "viral_load", "sample_status"} :
        \A i, j \in DOMAIN rows : (rows[i][f] = NoCol) <=> (rows[j][f] = NoCol)

\* the files of at most n rows over the rows R, and unparseable bytes
FileContents(R, n) ==
    {Garbage} \cup
    {Csv(rows) : rows \in {r \in UNION {[1..k -> R] : k \in 0..n} : SameColumns(r)}}

\* what an upload counts for in the bound MaxRows
UploadSize(content) == IF content.rows = <<>> THEN 1 ELSE Len(content.rows)

\* An uploader puts a file into the landing zone, overwriting a blob of that
\* name (upload_blob(..., overwrite=True)), while no run is in progress.
Upload(name, content) ==
    /\ pc = "idle"
    /\ dpc = "idle"
    /\ uploads + UploadSize(content) <= MaxRows
    /\ uploads' = uploads + UploadSize(content)
    /\ landing' = [landing EXCEPT ![name] = content]
    /\ UNCHANGED <<fix, dels, log_calls, quarantine, data, logs, now, pc, raised_at, locals>>

\* the request files of at most n rows over the rows R, a file without the
\* required columns and unparseable bytes
RequestContents(R, n) ==
    {Garbage, NoColumns} \cup {Csv(rows) : rows \in UNION {[1..k -> R] : k \in 0..n}}

\* A deletion request file is put into the deletion-requests container,
\* overwriting a blob of that name, while no run is in progress.
UploadRequest(name, content) ==
    /\ pc = "idle"
    /\ dpc = "idle"
    /\ uploads + UploadSize(content) <= MaxRows
    /\ uploads' = uploads + UploadSize(content)
    /\ requests' = [requests EXCEPT ![name] = content]
    /\ UNCHANGED <<processing_log, fix, pipe, stores, now, dpc, del_log_entry, deletion_blobs, del_idx,
                   all_deletions, del_partitions, total_deleted,
                   partitions_updated, del_log_calls>>

\* datetime.now() moves on to the next second
Tick ==
    /\ now < MaxTime
    /\ now' = now + 1
    /\ UNCHANGED <<fix, pipe, dels, stores, uploads>>

-----------------------------------------------------------------------------
(* Specification *)

\* a row of an input file with the columns sample_id, test_date, result,
\* viral_load and, unless status is NoCol, sample_status
Row(id, date, result, load, status) ==
    [sample_id |-> id, test_date |-> date, result |-> result,
     viral_load |-> load, sample_status |-> status]

\* The rows uploaded under Spec.  S1 in the week of 2025-01-06: a record with
\* either viral load, a record with a result code that is not allowed, and a
\* tombstone.  S2: a record and a tombstone in that week, and a record in the
\* week after.
UploadRows ==
    {Row("S1", "2025-01-06", "POS", "50", NoCol),
     Row("S1", "2025-01-08", "NEG", "300", "keep"),
     Row("S1", "2025-01-06", "Positive", "50", NoCol),
     Row("S1", "2025-01-06", "N/A", "0", "remove"),
     Row("S2", "2025-01-06", "POS", "50", NoCol),
     Row("S2", "2025-01-08", "N/A", "0", "remove"),
     Row("S2", "2025-01-13", "POS", "50", NoCol)}

\* The rows uploaded under SpecWeeks: records dated in the first ISO week of
\* 2024 (2024-01-01), and in the first ISO week of 2025 on either side of the
\* new year (2024-12-30, 2025-01-01).
WeekRows ==
    {Row(s, d, "POS", "50", NoCol) :
        s \in {"S1", "S2"}, d \in {"2024-01-01", "2024-12-30", "2025-01-01"}}

Init ==
    /\ landing = [n \in {FileNames[i] : i \in DOMAIN FileNames} \cup
                         {QuarantineFiles[t] : t \in DOMAIN QuarantineFiles} |-> Absent]
    /\ quarantine = <<>>
    /\ data = <<>>
    /\ logs = <<>>
    /\ now = 0
    /\ uploads = 0
    /\ pc = "idle"
    /\ raised_at = "none"
    /\ log_entry = ZeroLogEntry
    /\ blobs = <<>>
    /\ idx = 0
    /\ all_valid_rows = <<>>
    /\ all_error_rows = <<>>
    /\ rows_read = <<>>
    /\ unique_partitions = {}
    /\ filename = NoName
    /\ part_path = NoPart
    /\ history_df = <<>>
    /\ final_df = <<>>
    /\ log_calls = 0
    /\ requests = [n \in {RequestNames[i] : i \in DOMAIN RequestNames} |-> Absent]
    /\ dpc = "idle"
    /\ del_log_entry = ZeroDeletionLogEntry
    /\ deletion_blobs = <<>>
    /\ del_idx = 0
    /\ all_deletions = <<>>
    /\ del_partitions = {}
    /\ total_deleted = 0
    /\ partitions_updated = 0
    /\ del_log_calls = 0
    /\ processing_log = <<>>
    /\ rpc = "idle"
    /\ fix_file = NoFile

Pipeline ==
    \/ StartEmpty
    \/ StartRun
    \/ ReadCsvFails
    \/ ValidateFile
    \/ DeleteBlob
    \/ HandleBadDataOnly
    \/ HandleBadData
    \/ MergePartition
    \/ UploadPartition
    \/ Raise
    \/ Exit

Next ==
    \/ Pipeline
    \/ \E n \in {FileNames[i] : i \in DOMAIN FileNames}, c \in FileContents(UploadRows, MaxRows - uploads) :
          Upload(n, c)

Spec == Init /\ [][Next]_vars

NextWeeks ==
    \/ Pipeline
    \/ \E n \in {FileNames[i] : i \in DOMAIN FileNames},
          c \in FileContents(WeekRows, MaxRows - uploads) :
          Upload(n, c)

SpecWeeks == Init /\ [][NextWeeks]_vars

\* The rows uploaded under SpecRuns and SpecClock: for S1 a record, a record with a result
\* code that is not allowed and a tombstone, all in the week of 2025-01-06.
RunRows ==
    {Row("S1", "2025-01-06", "POS", "50", "keep"),
     Row("S1", "2025-01-06", "Positive", "50", "keep"),
     Row("S1", "2025-01-06", "N/A", "0", "remove")}

\* a row of a deletion request file
Request(id, date) == [sample_id |-> id, test_date |-> date]

\* The rows of the deletion requests under SpecRuns: S1 in the week of its
\* record, S1 in another week, and a test_date that is not YYYY-MM-DD.
RequestRows ==
    {Request("S1", "2025-01-06"),
     Request("S1", "2025-01-13"),
     Request("S1", "06/01/2025")}

Deletions ==
    \/ DeletionsStartEmpty
    \/ DeletionsStartRun
    \/ RequestSkipped
    \/ RequestRead
    \/ RequestReadDeleteFails
    \/ NoValidRequests
    \/ ComputePartitions
    \/ PartitionNotFound
    \/ PartitionFiltered
    \/ DeletionsComplete
    \/ DeletionsRaise
    \/ DeletionsExit

\* Runs of both processes, one after the other, within one second.
NextRuns ==
    \/ Pipeline
    \/ Deletions
    \/ \E n \in {FileNames[i] : i \in DOMAIN FileNames},
          c \in FileContents(RunRows, MaxRows - uploads) :
          Upload(n, c)
    \/ \E n \in {RequestNames[i] : i \in DOMAIN RequestNames},
          c \in RequestContents(RequestRows, MaxRows - uploads) :
          UploadRequest(n, c)

SpecRuns == Init /\ [][NextRuns]_vars

\* Runs of process_pipeline while the clock advances.
NextClock ==
    \/ Pipeline
    \/ Tick
    \/ \E n \in {FileNames[i] : i \in DOMAIN FileNames},
          c \in FileContents(RunRows, MaxRows - uploads) :
          Upload(n, c)

SpecClock == Init /\ [][NextClock]_vars

\* The rows uploaded under SpecTombstones: a record of S1, and tombstones of
\* the week of 2025-01-06: a complete one, one with an empty sample_id cell,
\* one with an empty test_date cell, one with a test_date that is not
\* YYYY-MM-DD, and one of a file without the sample_id column.
TombstoneRows ==
    {Row("S1", "2025-01-06", "POS", "50", "keep"),
     Row("S1", "2025-01-06", Null, Null, "remove"),
     Row(Null, "2025-01-06", Null, Null, "remove"),
     Row("S1", Null, Null, Null, "remove"),
     Row("S1", "06/01/2025", Null, Null, "remove"),
     Row(NoCol, "2025-01-06", Null, Null, "remove")}

NextTombstones ==
    \/ Pipeline
    \/ \E n \in {FileNames[i] : i \in DOMAIN FileNames},
          c \in FileContents(TombstoneRows, MaxRows - uploads) :
          Upload(n, c)

SpecTombstones == Init /\ [][NextTombstones]_vars

\* The rows uploaded under SpecResults: records of S1 that differ in the result
\* code, the three allowed ones and two that differ from POS in case or length.
ResultRows ==
    {Row("S1", "2025-01-06", r, "50", NoCol) :
        r \in {"POS", "NEG", "N/A", "Positive", "pos"}}

NextResults ==
    \/ Pipeline
    \/ \E n \in {FileNames[i] : i \in DOMAIN FileNames},
          c \in FileContents(ResultRows, MaxRows - uploads) :
          Upload(n, c)

SpecResults == Init /\ [][NextResults]_vars

\* The rows uploaded under SpecFields: a record of S1 in a file without the
\* sample_status column, the same record with an empty sample_status cell, and
\* rows that break one rule (sample_id) or two (test_date and result; result
\* and viral_load).
FieldRows ==
    {Row("S1", "2025-01-06", "POS", "50", NoCol),
     Row("S1", "2025-01-06", "POS", "50", Null),
     Row(Null, "2025-01-06", "POS", "50", NoCol),
     Row("S1", "06/01/2025", "Positive", "50", NoCol),
     Row("S1", "2025-01-06", "Positive", "high", "keep")}

NextFields ==
    \/ Pipeline
    \/ \E n \in {FileNames[i] : i \in DOMAIN FileNames},
          c \in FileContents(FieldRows, MaxRows - uploads) :
          Upload(n, c)

SpecFields == Init /\ [][NextFields]_vars

\* The rows uploaded under SpecDeletions: records of S1 and S2 dated 2024-12-30
\* and a record of S1 dated 2025-01-01, two days of one ISO week that lie in
\* two calendar years and so in two partitions.
StoredRows ==
    {Row("S1", "2024-12-30", "POS", "50", NoCol),
     Row("S2", "2024-12-30", "NEG", "300", NoCol),
     Row("S1", "2025-01-01", "POS", "50", NoCol)}

\* The rows of the deletion requests under SpecDeletions: S1 and S3, of which
\* no record is uploaded, dated 2024-12-30, and S1 dated 2025-01-01.
DeletionRequestRows ==
    {Request("S1", "2024-12-30"),
     Request("S3", "2024-12-30"),
     Request("S1", "2025-01-01")}

\* Runs of both processes, one after the other, on records of two weeks.
NextDeletions ==
    \/ Pipeline
    \/ Deletions
    \/ \E n \in {FileNames[i] : i \in DOMAIN FileNames},
          c \in FileContents(StoredRows, MaxRows - uploads) :
          Upload(n, c)
    \/ \E n \in {RequestNames[i] : i \in DOMAIN RequestNames},
          c \in RequestContents(DeletionRequestRows, MaxRows - uploads) :
          UploadRequest(n, c)

SpecDeletions == Init /\ [][NextDeletions]_vars

\* The rows uploaded under SpecChannels, all of the week of 2025-01-06: two
\* different records of S2, a record of S1 and a tombstone of S1.
ChannelRows ==
    {Row("S2", "2025-01-06", "POS", "50", "keep"),
     Row("S2", "2025-01-08", "NEG", "300", "keep"),
     Row("S1", "2025-01-06", "POS", "50", "keep"),
     Row("S1", "2025-01-06", "N/A", "0", "remove")}

NextChannels ==
    \/ Pipeline
    \/ \E n \in {FileNames[i] : i \in DOMAIN FileNames},
          c \in FileContents(ChannelRows, MaxRows - uploads) :
          Upload(n, c)

SpecChannels == Init /\ [][NextChannels]_vars

\* The rows uploaded under SpecLanding: a valid row and a row that is rejected.
LandingRows ==
    {Row("S1", "2025-01-06", "POS", "50", NoCol),
     Row("S1", "2025-01-06", "Positive", "50", NoCol)}

NextLanding ==
    \/ Pipeline
    \/ \E n \in {FileNames[i] : i \in DOMAIN FileNames},
          c \in FileContents(LandingRows, MaxRows - uploads) :
          Upload(n, c)

\* Runs of process_pipeline that are repeated for ever (the scheduled workflow):
\* a process that can take a step takes it, a run is started when the last one
\* has ended, and the download and the delete of a blob, which every run tries
\* again, do not raise for ever.
LandingFairness ==
    /\ WF_vars(StartEmpty)
    /\ WF_vars(StartRun)
    /\ SF_vars(ReadCsvFails)
    /\ SF_vars(ValidateFile)
    /\ SF_vars(DeleteBlob)
    /\ WF_vars(HandleBadDataOnly)
    /\ WF_vars(HandleBadData)
    /\ WF_vars(MergePartition)
    /\ WF_vars(UploadPartition)
    /\ WF_vars(Exit)

SpecLanding == Init /\ [][NextLanding]_vars /\ LandingFairness

\* An uploader puts a file into the landing zone, overwriting a blob of that
\* name, while a process_pipeline run is in progress: upload_blob(...,
\* overwrite=True) takes no lease and the run holds none.
UploadDuringRun(name, content) ==
    /\ pc \notin {"idle", "done", "failed"}
    /\ uploads + UploadSize(content) <= MaxRows
    /\ uploads' = uploads + UploadSize(content)
    /\ landing' = [landing EXCEPT ![name] = content]
    /\ UNCHANGED <<fix, dels, log_calls, quarantine, data, logs, now, pc, raised_at, locals>>

\* The rows uploaded under SpecOverwrite: two valid rows.
OverwriteRows ==
    {Row("S1", "2025-01-06", "POS", "50", NoCol),
     Row("S2", "2025-01-08", "NEG", "300", NoCol)}

\* Runs of process_pipeline and uploads at any time.
NextOverwrite ==
    \/ Pipeline
    \/ \E n \in {FileNames[i] : i \in DOMAIN FileNames},
          c \in FileContents(OverwriteRows, MaxRows - uploads) :
          Upload(n, c)
    \/ \E n \in {FileNames[i] : i \in DOMAIN FileNames},
          c \in FileContents(OverwriteRows, MaxRows - uploads) :
          UploadDuringRun(n, c)

SpecOverwrite == Init /\ [][NextOverwrite]_vars

\* The rows uploaded under SpecDates: records of S1 and S2 dated 2025-01-06.
DateRows ==
    {Row("S1", "2025-01-06", "POS", "50", NoCol),
     Row("S2", "2025-01-06", "NEG", "300", NoCol)}

\* The request under SpecDates: S1 with 2025-01-08, another day of the week of
\* 2025-01-06.
DateRequestRows == {Request("S1", "2025-01-08")}

\* Runs of both processes, one after the other, where the test_date of every
\* request differs from the test_date of every record.
NextDates ==
    \/ Pipeline
    \/ Deletions
    \/ \E n \in {FileNames[i] : i \in DOMAIN FileNames},
          c \in FileContents(DateRows, MaxRows - uploads) :
          Upload(n, c)
    \/ \E n \in {RequestNames[i] : i \in DOMAIN RequestNames},
          c \in RequestContents(DateRequestRows, MaxRows - uploads) :
          UploadRequest(n, c)

SpecDates == Init /\ [][NextDates]_vars

-----------------------------------------------------------------------------
(* The promotion of corrected quarantine files: process_reingest
   (src/admin_tools/reingest_fixed_data.py) and the dashboard's upload of
   staged fixes (src/admin_tools/web_uploader.py) *)

\* the quarantine blob that has the file name `name`
QuarantineBlob(name) ==
    <<"quarantine", (CHOOSE t \in DOMAIN QuarantineFiles : QuarantineFiles[t] = name) - 1>>

\* the quarantine store without the blob q
WithoutBlob(q) == [n \in DOMAIN quarantine \ {q} |-> quarantine[n]]

\* lines 49-58: LabResult(**row) raises for no row of the file
ValidationPassed(content) ==
    \A i \in DOMAIN content.rows : LabResultErrors(content.rows[i]) = <<>>

\* lines 32-43: a corrected file in the local folder, named as a quarantine
\* blob, is taken up by the for loop
ReingestRead(name, content) ==
    /\ rpc = "idle"
    /\ uploads + UploadSize(content) <= MaxRows
    /\ uploads' = uploads + UploadSize(content)
    /\ fix_file' = [name |-> name, content |-> content]
    /\ rpc' = "validate"
    /\ UNCHANGED <<dels, pipe, stores, now>>

\* lines 44-58 and 80-81: the file is parsed and a row fails validation; the
\* file is rejected and stays in the local folder
ReingestRejected ==
    /\ rpc = "validate"
    /\ fix_file.content.kind = "csv"
    /\ ~ValidationPassed(fix_file.content)
    /\ rpc' = "idle"
    /\ fix_file' = NoFile
    /\ UNCHANGED <<dels, pipe, stores, now, uploads>>

\* an upload that is followed by the delete of the quarantine blob also when
\* it was not made: the rejected file's quarantine blob is deleted
ReingestUploadUnguarded ==
    /\ rpc = "validate"
    /\ fix_file.content.kind = "csv"
    /\ landing' = IF ValidationPassed(fix_file.content)
                  THEN [landing EXCEPT ![fix_file.name] = fix_file.content]
                  ELSE landing
    /\ rpc' = "uploaded"
    /\ UNCHANGED <<dels, pipe, quarantine, data, logs, now, uploads, fix_file>>

\* lines 61-66: every row has passed; the file is uploaded to the landing zone,
\* overwriting
ReingestUpload ==
    /\ rpc = "validate"
    /\ fix_file.content.kind = "csv"
    /\ ValidationPassed(fix_file.content)
    /\ landing' = [landing EXCEPT ![fix_file.name] = fix_file.content]
    /\ rpc' = "uploaded"
    /\ UNCHANGED <<dels, pipe, quarantine, data, logs, now, uploads, fix_file>>

\* lines 68-74: the quarantine blob of that name is deleted if it exists
ReingestDelete ==
    /\ rpc = "uploaded"
    /\ quarantine' = IF QuarantineBlob(fix_file.name) \in DOMAIN quarantine
                     THEN WithoutBlob(QuarantineBlob(fix_file.name))
                     ELSE quarantine
    /\ rpc' = "deleted"
    /\ UNCHANGED <<dels, pipe, landing, data, logs, now, uploads, fix_file>>

\* lines 83-84: pl.read_csv or a storage call (upload_blob, exists,
\* delete_blob) raises; the exception is printed and the loop goes on
ReingestScriptError ==
    /\ rpc \in {"validate", "uploaded"}
    /\ rpc = "validate" =>
          fix_file.content.kind = "garbage" \/ ValidationPassed(fix_file.content)
    /\ rpc' = "idle"
    /\ fix_file' = NoFile
    /\ UNCHANGED <<dels, pipe, stores, now, uploads>>

\* web_uploader.py lines 569-594: a quarantine blob is selected, edited and
\* staged for upload; the edit is not validated
StageFix(name, content) ==
    /\ rpc = "idle"
    /\ QuarantineBlob(name) \in DOMAIN quarantine
    /\ content.kind = "csv"
    /\ uploads + UploadSize(content) <= MaxRows
    /\ uploads' = uploads + UploadSize(content)
    /\ fix_file' = [name |-> name, content |-> content]
    /\ rpc' = "staged"
    /\ UNCHANGED <<dels, pipe, stores, now>>

\* web_uploader.py lines 655-659: the staged file is uploaded to the landing
\* zone, overwriting
PromoteUpload ==
    /\ rpc = "staged"
    /\ landing' = [landing EXCEPT ![fix_file.name] = fix_file.content]
    /\ rpc' = "promoted"
    /\ UNCHANGED <<dels, pipe, quarantine, data, logs, now, uploads, fix_file>>

\* web_uploader.py lines 661-663: the quarantine blob is deleted
PromoteDelete ==
    /\ rpc = "promoted"
    /\ QuarantineBlob(fix_file.name) \in DOMAIN quarantine
    /\ quarantine' = WithoutBlob(QuarantineBlob(fix_file.name))
    /\ rpc' = "deleted"
    /\ UNCHANGED <<dels, pipe, landing, data, logs, now, uploads, fix_file>>

\* web_uploader.py lines 665-666: upload_blob or delete_blob raises (the
\* latter also when the blob is gone); the error is shown
PromoteFails ==
    /\ rpc \in {"staged", "promoted"}
    /\ rpc' = "idle"
    /\ fix_file' = NoFile
    /\ UNCHANGED <<dels, pipe, stores, now, uploads>>

\* lines 76-78 (the local file is moved to the completed folder),
\* web_uploader.py lines 670-672 (the staged fixes are cleared)
PromotionEnds ==
    /\ rpc = "deleted"
    /\ rpc' = "idle"
    /\ fix_file' = NoFile
    /\ UNCHANGED <<dels, pipe, stores, now, uploads>>

\* The rows uploaded and the rows of the corrected files under SpecReingest: a
\* valid row and a row that is rejected.
ReingestRows ==
    {Row("S1", "2025-01-06", "POS", "50", NoCol),
     Row("S1", "2025-01-06", "Positive", "50", NoCol)}

\* Runs of process_pipeline, uploads and promotions of corrected files.
NextReingest ==
    \/ Pipeline
    \/ \E n \in {FileNames[i] : i \in DOMAIN FileNames},
          c \in FileContents(ReingestRows, MaxRows - uploads) :
          Upload(n, c)
    \/ \E n \in {QuarantineFiles[t] : t \in DOMAIN QuarantineFiles},
          c \in FileContents(ReingestRows, MaxRows - uploads) :
          ReingestRead(n, c)
    \/ ReingestRejected
    \/ ReingestUpload
    \/ ReingestDelete
    \/ ReingestScriptError
    \/ \E n \in {QuarantineFiles[t] : t \in DOMAIN QuarantineFiles},
          c \in FileContents(ReingestRows, MaxRows - uploads) :
          StageFix(n, c)
    \/ PromoteUpload
    \/ PromoteDelete
    \/ PromoteFails
    \/ PromotionEnds

SpecReingest == Init /\ [][NextReingest]_vars

\* process_pipeline is started while a process_deletions run is in progress:
\* neither program takes a lock or looks for the other (lines 27-52).
StartRunConcurrent ==
    /\ pc = "idle"
    /\ dpc # "idle"
    /\ ListBlobs # <<>>
    /\ log_calls' = 0
    /\ log_entry' = [NewLogEntry EXCEPT !.files_processed = Len(ListBlobs)]
    /\ ResetLocals
    /\ blobs' = ListBlobs
    /\ idx' = 1
    /\ pc' = "download"
    /\ raised_at' = "none"
    /\ UNCHANGED <<fix, dels, stores, now, uploads>>

\* process_deletions is started while a process_pipeline run is in progress
\* (delete_records.py lines 31-54).
DeletionsStartRunConcurrent ==
    /\ dpc = "idle"
    /\ pc # "idle"
    /\ ListRequests # <<>>
    /\ del_log_entry' = [NewDeletionLogEntry EXCEPT
                            !.files_processed = Len(ListRequests)]
    /\ ResetDeletionLocals
    /\ deletion_blobs' = ListRequests
    /\ del_idx' = 1
    /\ del_log_calls' = 0
    /\ dpc' = "read"
    /\ UNCHANGED <<fix, pipe, stores, requests, now, uploads>>

\* The rows uploaded under SpecInterleaved: records of S1 and S2 in one week.
InterleavedRows ==
    {Row("S1", "2025-01-06", "POS", "50", NoCol),
     Row("S2", "2025-01-08", "NEG", "300", NoCol)}

\* The request under SpecInterleaved: the record of S1.
InterleavedRequestRows == {Request("S1", "2025-01-06")}

\* Runs of the two processes whose steps interleave.
NextInterleaved ==
    \/ Pipeline
    \/ Deletions
    \/ StartRunConcurrent
    \/ DeletionsStartRunConcurrent
    \/ \E n \in {FileNames[i] : i \in DOMAIN FileNames},
          c \in FileContents(InterleavedRows, MaxRows - uploads) :
          Upload(n, c)
    \/ \E n \in {RequestNames[i] : i \in DOMAIN RequestNames},
          c \in RequestContents(InterleavedRequestRows, MaxRows - uploads) :
          UploadRequest(n, c)

SpecInterleaved == Init /\ [][NextInterleaved]_vars

-----------------------------------------------------------------------------
(* Claims *)

\* the records of df with the given sample_id, in order
RecordsOf(df, id) == SelectSeq(df, LAMBDA r : r.sample_id = id)

\* C1: after every upsert pass, into an existing partition or one the pass
\* creates, the persisted partition holds at most one record per sample_id.
\* Fails: a created partition is written without deduplication (lines 193-201).
C1_OneRecordPerSampleId ==
    \A p \in DOMAIN data : Cardinality(SampleIdsOf(data[p])) = Len(data[p])


\* the step of UploadPartition: the partition object part_path is written
PartitionWritten == pc = "upload" /\ pc' \in {"merge", "done"}

\* the step of MergePartition: the batch is merged and counted
PartitionMerged == pc = "merge" /\ pc' = "upload"

\* the rows of the batch for sample_id id in the partition being processed
BatchRowsOf(id) == RecordsOf(NewBatch(all_valid_rows, part_path), id)

\* C2 as stated: when a batch is upserted into an existing partition and a
\* sample_id occurs in the history and in a keep row of the batch, the written
\* partition holds exactly one record for it, the last keep row of the batch.
\* Fails when a tombstone for the sample_id follows the keep row in the batch.
C2_Original ==
    [][(PartitionWritten /\ part_path \in DOMAIN data) =>
        \A id \in SampleIdsOf(data[part_path]) :
            LET keeps == SelectSeq(BatchRowsOf(id),
                                   LAMBDA r : r.sample_status = "keep")
            IN  keeps # <<>> =>
                    RecordsOf(data'[part_path], id) = <<Last(keeps)>>]_vars

\* C2 amended: when a batch is upserted into an existing partition and a
\* sample_id occurs in the history and the last row of the batch for it is a
\* keep row, the written partition holds exactly one record for it, with the
\* field values of that last batch row.
C2_LastWriteWins ==
    [][(PartitionWritten /\ part_path \in DOMAIN data) =>
        \A id \in SampleIdsOf(data[part_path]) :
            (BatchRowsOf(id) # <<>> /\ Last(BatchRowsOf(id)).sample_status = "keep")
                => RecordsOf(data'[part_path], id) = <<Last(BatchRowsOf(id))>>]_vars

\* C2 witness: a finished run whose batch ended, for S1, with a keep row of
\* viral load 300, upserted into a history that held S1 with viral load 50.
C2_Witness ==
    /\ pc = "done"
    /\ part_path \in DOMAIN data
    /\ \E i \in DOMAIN history_df :
           history_df[i].sample_id = "S1" /\ history_df[i].viral_load = 50
    /\ BatchRowsOf("S1") # <<>>
    /\ Last(BatchRowsOf("S1")).viral_load = 300
    /\ RecordsOf(data[part_path], "S1") = <<Last(BatchRowsOf("S1"))>>


\* the sample_ids of the batch whose rows for the partition being processed
\* contain a tombstone
TombstonedIds ==
    {id \in SampleIdsOf(NewBatch(all_valid_rows, part_path)) :
        \E i \in DOMAIN BatchRowsOf(id) : BatchRowsOf(id)[i].sample_status = "remove"}

\* the sample_ids of the batch whose last row for the partition being
\* processed is a tombstone
LastTombstonedIds ==
    {id \in SampleIdsOf(NewBatch(all_valid_rows, part_path)) :
        Last(BatchRowsOf(id)).sample_status = "remove"}

\* C3 as stated: when a batch upserted into an existing partition holds a
\* tombstone for a sample_id of the history, the written partition holds no
\* record for it, and rows_deleted grows by one for each tombstoned sample_id.
\* Fails when a keep row for the sample_id follows the tombstone in the batch.
C3_Original ==
    [][/\ (PartitionMerged /\ part_path \in DOMAIN data) =>
            log_entry'.rows_deleted - log_entry.rows_deleted
                = Cardinality(TombstonedIds)
       /\ (PartitionWritten /\ part_path \in DOMAIN data) =>
            \A id \in TombstonedIds \cap SampleIdsOf(data[part_path]) :
                id \notin SampleIdsOf(data'[part_path])]_vars

\* C3 amended: when the last row of a batch for a sample_id is a tombstone and
\* the batch is upserted into an existing partition whose history holds the
\* sample_id, the written partition holds no record for it, and rows_deleted
\* grows by one for each such sample_id.
C3_TombstoneRemoves ==
    [][/\ (PartitionMerged /\ part_path \in DOMAIN data) =>
            log_entry'.rows_deleted - log_entry.rows_deleted
                = Cardinality(LastTombstonedIds)
       /\ (PartitionWritten /\ part_path \in DOMAIN data) =>
            \A id \in LastTombstonedIds \cap SampleIdsOf(data[part_path]) :
                id \notin SampleIdsOf(data'[part_path])]_vars

\* C3 witness: a finished run whose batch ended, for S1, with a tombstone,
\* upserted into a history that held S1: S1 is gone and rows_deleted is 1.
C3_Witness ==
    /\ pc = "done"
    /\ part_path \in DOMAIN data
    /\ "S1" \in SampleIdsOf(history_df)
    /\ LastTombstonedIds = {"S1"}
    /\ "S1" \notin SampleIdsOf(data[part_path])
    /\ log_entry.rows_deleted = 1

\* the ISO-8601 week-based year of a date, which the pipeline does not compute
IsoYear(d) ==
    LET w == (DayOfYear(d) - IsoWeekday(d) + 10) \div 7
    IN  IF w < 1 THEN d[1] - 1
        ELSE IF w > WeeksInYear(d[1]) THEN d[1] + 1
        ELSE d[1]

\* two dates of one ISO-8601 week
SameIsoWeek(d, e) == IsoYear(d) = IsoYear(e) /\ IsoWeek(d) = IsoWeek(e)

\* C4: any two test_dates of one ISO week get the same partition path, also in
\* a week that spans the new year.  Fails: the path takes the calendar year
\* (dt.year(), line 135) with the ISO week (dt.week(), line 136).
C4_SameWeekSamePath ==
    \A i, j \in DOMAIN all_valid_rows :
        SameIsoWeek(all_valid_rows[i].test_date, all_valid_rows[j].test_date)
            => PartitionPath(all_valid_rows[i].test_date)
                 = PartitionPath(all_valid_rows[j].test_date)

\* C5: the partition path is the ISO week-based year and the ISO week of the
\* test_date, so that dates of different ISO weeks never share a path and a
\* partition object holds records of one ISO week only.  Fails: the path takes
\* the calendar year (line 135), and 2024-01-01 (week 1 of 2024) and 2024-12-30
\* (week 1 of 2025) both map to year=2024/week=1.
C5_OneIsoWeekPerPartition ==
    \A p \in DOMAIN data :
        \A i, j \in DOMAIN data[p] :
            SameIsoWeek(data[p][i].test_date, data[p][j].test_date)

\* rows is split into valid and error: every row, in order, accounts for
\* exactly one element of exactly one of the two, and no element is left over
RECURSIVE IsSplit(_, _, _, _)
IsSplit(rows, name, valid, error) ==
    IF rows = <<>> THEN valid = <<>> /\ error = <<>>
    ELSE \/ /\ error # <<>>
            /\ Head(error).row = Head(rows)
            /\ Head(error).source_file = name
            /\ IsSplit(Tail(rows), name, valid, Tail(error))
         \/ /\ valid # <<>>
            /\ Head(valid).sample_id = Head(rows).sample_id
            /\ IsSplit(Tail(rows), name, Tail(valid), error)

\* the elements of seq after its first n
Drop(seq, n) == SubSeq(seq, n + 1, Len(seq))

\* C6: the validation of a parsed file puts every row of the file into exactly
\* one of all_valid_rows and all_error_rows, never both and never neither.
C6_ValidationTotal ==
    [][(pc = "download" /\ pc' = "delete") =>
        /\ SubSeq(all_valid_rows', 1, Len(all_valid_rows)) = all_valid_rows
        /\ SubSeq(all_error_rows', 1, Len(all_error_rows)) = all_error_rows
        /\ IsSplit(landing[blobs[idx]].rows, blobs[idx],
                   Drop(all_valid_rows', Len(all_valid_rows)),
                   Drop(all_error_rows', Len(all_error_rows)))]_vars

\* C6 witness: a file of three rows has been classified, with rows on either side.
C6_Witness ==
    /\ pc = "delete"
    /\ Len(landing[blobs[idx]].rows) = 3
    /\ all_valid_rows # <<>>
    /\ all_error_rows # <<>>

\* the row fails validation: a tombstone without the sample_id or test_date
\* column or with a test_date that is no date, another row with a field that
\* LabResult rejects
FailsValidation(row) ==
    IF row.sample_status = "remove"
    THEN row.sample_id = NoCol \/ row.test_date = NoCol
         \/ (row.test_date # Null /\ row.test_date \notin DOMAIN DateOf)
    ELSE LabResultErrors(row) # <<>>

\* C7: in a run that completes, the quarantine blob written by the run holds
\* exactly the rows read by the run that fail validation, each with a
\* pipeline_error and its source_file, rows_quarantined is their number, and
\* the other rows read are the valid rows passed to partitioning.
C7_QuarantineComplete ==
    (pc = "done" /\ blobs # <<>>) =>
        LET failed == SelectSeq(rows_read, LAMBDA e : FailsValidation(e[2]))
            passed == SelectSeq(rows_read, LAMBDA e : ~FailsValidation(e[2]))
        IN  /\ log_entry.rows_quarantined = Len(failed)
            /\ failed # <<>> =>
                 /\ filename \in DOMAIN quarantine
                 /\ Len(quarantine[filename]) = Len(failed)
                 /\ \A i \in DOMAIN failed :
                        /\ quarantine[filename][i].row = failed[i][2]
                        /\ quarantine[filename][i].source_file = failed[i][1]
                        /\ quarantine[filename][i].pipeline_error # <<>>
            /\ Len(all_valid_rows) = Len(passed)
            /\ \A i \in DOMAIN passed :
                   all_valid_rows[i].sample_id = passed[i][2].sample_id
            /\ Len(failed) + Len(all_valid_rows) = Len(rows_read)
            /\ all_valid_rows # <<>> => unique_partitions = {}

\* C7 witness: a completed run over two files with three rows, one of which
\* is in the quarantine blob and two of which were partitioned.
C7_Witness ==
    /\ pc = "done"
    /\ Len(blobs) = 2
    /\ Len(rows_read) = 3
    /\ rows_read[1][1] # rows_read[3][1]
    /\ filename \in DOMAIN quarantine
    /\ Len(quarantine[filename]) = 1
    /\ log_entry.rows_quarantined = 1
    /\ Len(all_valid_rows) = 2

\* C8: a parsed file is deleted in the step after its rows are classified;
\* when the quarantine blob or a partition is written no listed file that
\* parses is left in the landing zone; a run that fails leaves the landing
\* zone as it is.
C8_DeleteAfterClassify ==
    [][/\ pc = "delete" => (pc' = "failed" \/ landing'[blobs[idx]] = Absent)
       /\ (quarantine' # quarantine \/ data' # data) =>
              \A i \in DOMAIN blobs : landing[blobs[i]].kind # "csv"
       /\ (pc' = "failed" \/ pc = "failed") => landing' = landing]_vars

\* C8 witness: the merge failed after two parsed files were deleted.
C8_Witness ==
    /\ pc = "failed"
    /\ raised_at \in {"merge", "upload"}
    /\ Len(blobs) = 2
    /\ \E i \in DOMAIN rows_read : rows_read[i][1] = blobs[1]
    /\ \E i \in DOMAIN rows_read : rows_read[i][1] = blobs[2]
    /\ \A i \in DOMAIN blobs : landing[blobs[i]] = Absent

\* the row read from a blob is in no container: the blob is gone from the
\* landing zone, no quarantine blob holds the row and no partition holds a
\* record of its sample_id
RowLost(name, row) ==
    /\ landing[name] = Absent
    /\ \A q \in DOMAIN quarantine : \A i \in DOMAIN quarantine[q] :
           quarantine[q][i].row # row
    /\ \A p \in DOMAIN data : row.sample_id \notin SampleIdsOf(data[p])

\* C9: the input files are deleted while the quarantine and data containers are
\* still unwritten; a run that then fails writes neither and restores nothing,
\* and the rows it read go with its locals.
C9_LossOnFailure ==
    [][/\ pc \in {"download", "delete"} => UNCHANGED <<quarantine, data>>
       /\ pc' = "failed" => UNCHANGED <<landing, quarantine, data>>
       /\ pc = "failed" =>
              /\ UNCHANGED <<landing, quarantine, data>>
              /\ all_valid_rows' = <<>> /\ all_error_rows' = <<>>]_vars

\* C9 witness: a failed run has read a row that is in no container.
C9_Witness ==
    /\ pc = "failed"
    /\ \E i \in DOMAIN rows_read : RowLost(rows_read[i][1], rows_read[i][2])

\* C10: when the read of an existing partition object fails, every other
\* partition of the batch is still merged and written in the run.  Fails: the
\* exception of lines 151-156 is not caught and ends the run.
C10_OtherPartitionsMerged ==
    (pc = "failed" /\ raised_at = "merge" /\ part_path \in DOMAIN data) =>
        unique_partitions \ {part_path} = {}

\* the deletion log_entry with the counters the run has reached
DeletionCounters ==
    [del_log_entry EXCEPT !.rows_deleted = total_deleted,
                          !.partitions_updated = partitions_updated]

\* C11: a run of process_pipeline or process_deletions that fails part-way (a
\* download, a partition read or an upload raises) has still written a record
\* with the counters it reached to the logs store.
\* Fails: neither function catches the exception, so no log writer is called.
C11_FailedRunLogged ==
    /\ pc = "failed" =>
          \E n \in DOMAIN logs : n[1] = "execution" /\ logs[n] = log_entry
    /\ dpc = "failed" =>
          \E n \in DOMAIN logs : n[1] = "deletion" /\ logs[n] = DeletionCounters

\* C12: a run of process_pipeline or process_deletions that returns has called
\* its log writer exactly once, whichever return it took (nothing listed,
\* nothing valid to apply, work completed), and not before its return.
C12_OneLogCallPerRun ==
    /\ log_calls = (IF pc = "done" THEN 1 ELSE 0)
    /\ del_log_calls = (IF dpc = "done" THEN 1 ELSE 0)

\* a run that listed no file has returned, and its record is in the logs store
C12_Witness ==
    /\ pc = "done"
    /\ blobs = <<>>
    /\ log_calls = 1
    /\ \E n \in DOMAIN logs : n[1] = "execution" /\ logs[n] = log_entry

\* C13: whatever the timing of the runs, a call of the log writer puts its
\* artifact under a name no earlier log artifact has, and every earlier log
\* artifact stays in the logs store with its content.
\* Fails: the name has the resolution of a second and the upload overwrites, so
\* the log of a run replaces the log of an earlier run of the same second.
C13_LogsAppendOnly ==
    [][\A n \in DOMAIN logs : n \in DOMAIN logs' /\ logs'[n] = logs[n]]_vars

\* C14: whatever the timing of the runs, the rejected rows of a run go to a new
\* quarantine artifact of their own: every quarantine artifact of an earlier run
\* stays in the quarantine store with its content.
\* Fails: the name has the resolution of a second and the upload overwrites, so
\* the rejects of a run replace those of an earlier run of the same second.
C14_QuarantineNeverReplaced ==
    [][\A n \in DOMAIN quarantine :
          n \in DOMAIN quarantine' /\ quarantine'[n] = quarantine[n]]_vars

\* C15: a run of process_pipeline in which no row fails validation writes
\* nothing to the quarantine store: as long as the run has rejected no row,
\* none of its steps adds an artifact, empty or not, or changes an existing one.
C15_NoRejectsNoQuarantine ==
    [][(all_error_rows = <<>> /\ all_error_rows' = <<>>) =>
          quarantine' = quarantine]_vars

\* a run that read rows and rejected none has returned, and the quarantine store
\* holds the artifact of an earlier run
C15_Witness ==
    /\ pc = "done"
    /\ rows_read # <<>>
    /\ all_error_rows = <<>>
    /\ filename = NoName
    /\ quarantine # <<>>

\* the counters of an execution record are all zero
PipelineCountersZero(entry) ==
    /\ entry.files_processed = 0
    /\ entry.rows_quarantined = 0
    /\ entry.rows_inserted = 0
    /\ entry.rows_updated = 0
    /\ entry.rows_deleted = 0

\* the counters of a deletion record are all zero
DeletionCountersZero(entry) ==
    /\ entry.files_processed = 0
    /\ entry.rows_deleted = 0
    /\ entry.partitions_updated = 0

\* C16: a run of process_pipeline started on an empty landing zone, and a run
\* of process_deletions started on an empty request queue, returns at once,
\* leaves every partition object unchanged and hands to its log writer, once, a
\* record whose counters are all zero; the logs store changes by that record
\* only.
C16_EmptyRunIsNoOp ==
    [][/\ (pc = "idle" /\ pc' # "idle" /\ \A n \in DOMAIN landing : landing[n] = Absent)
          => /\ pc' = "done"
             /\ data' = data
             /\ log_calls' = 1
             /\ PipelineCountersZero(log_entry')
             /\ logs' \in {logs, (<<"execution", now>> :> log_entry') @@ logs}
       /\ (dpc = "idle" /\ dpc' # "idle" /\ \A n \in DOMAIN requests : requests[n] = Absent)
          => /\ dpc' = "done"
             /\ data' = data
             /\ del_log_calls' = 1
             /\ DeletionCountersZero(del_log_entry')
             /\ logs' \in {logs, (<<"deletion", now>> :> del_log_entry') @@ logs}]_vars

\* both kinds of run have run on empty input after a partition was written, and
\* their all-zero records are in the logs store
C16_Witness ==
    /\ dpc = "done"
    /\ deletion_blobs = <<>>
    /\ \E p \in DOMAIN data : data[p] # <<>>
    /\ \E n \in DOMAIN logs : n[1] = "execution" /\ PipelineCountersZero(logs[n])
    /\ \E n \in DOMAIN logs : n[1] = "deletion" /\ logs[n] = del_log_entry
                               /\ DeletionCountersZero(logs[n])

\* the tombstones among the records of df
TombstonesOf(df) == SelectSeq(df, LAMBDA r : r.sample_status = "remove")

\* C17: for every partition a run of process_pipeline touches, whether the
\* partition object exists or is created (history empty), the run adds to
\* rows_inserted the number of distinct sample_ids of the batch that are not in
\* the history, to rows_updated the number of those that are, and to
\* rows_deleted the number of tombstones dropped from the deduplicated set.
\* Fails: for a created partition the run adds the number of non-tombstone rows
\* of the batch to rows_inserted and nothing to rows_deleted (lines 193-196).
C17_CountersPerPartition ==
    [][(pc = "merge" /\ pc' = "upload") =>
          LET history == IF part_path \in DOMAIN data THEN data[part_path] ELSE <<>>
              batch   == NewBatch(all_valid_rows, part_path)
          IN  /\ log_entry'.rows_inserted = log_entry.rows_inserted +
                    Cardinality(SampleIdsOf(batch) \ SampleIdsOf(history))
              /\ log_entry'.rows_updated = log_entry.rows_updated +
                    Cardinality(SampleIdsOf(batch) \cap SampleIdsOf(history))
              /\ log_entry'.rows_deleted = log_entry.rows_deleted +
                    Len(TombstonesOf(UniqueKeepLast(history \o batch)))]_vars

\* C18: after any sequence of runs of process_pipeline and process_deletions no
\* persisted partition object holds a record whose sample_status is remove, be
\* the partition one that existed or one a run created.
C18_NoTombstonePersisted ==
    \A p \in DOMAIN data : TombstonesOf(data[p]) = <<>>

\* a run whose valid rows held a tombstone has written the partition of that
\* tombstone, with a record in it, and has returned
C18_Witness ==
    /\ pc = "done"
    /\ part_path \in DOMAIN data
    /\ data[part_path] # <<>>
    /\ TombstonesOf(NewBatch(all_valid_rows, part_path)) # <<>>

\* the sample_id of the tombstone row is present and not empty, and its
\* test_date is present and a YYYY-MM-DD date
TombstoneWellFormed(row) ==
    /\ row.sample_id \notin {NoCol, Null}
    /\ row.test_date \in DOMAIN DateOf

\* the tombstone record the upsert would get for the row
TombstonePassed(row) ==
    \E j \in DOMAIN all_valid_rows :
        /\ all_valid_rows[j].sample_status = "remove"
        /\ all_valid_rows[j].sample_id = row.sample_id
        /\ all_valid_rows[j].test_date =
              (IF row.test_date \in DOMAIN DateOf THEN DateOf[row.test_date]
                                                   ELSE NullDate)

\* the row is among the rejected rows, with an error message
RowRejected(name, row) ==
    \E j \in DOMAIN all_error_rows :
        /\ all_error_rows[j].row = row
        /\ all_error_rows[j].source_file = name
        /\ all_error_rows[j].pipeline_error # <<>>

\* C19: a row with sample_status remove becomes a valid tombstone only when its
\* sample_id is present and not empty and its test_date is present and parses
\* as YYYY-MM-DD; every other such row is rejected with an error message and is
\* not passed to the upsert.
\* Fails: the code tests that the columns exist, not that the cells are filled;
\* a tombstone with an empty sample_id or test_date cell is taken as valid.
C19_TombstoneValidated ==
    \A i \in DOMAIN rows_read :
        LET name == rows_read[i][1]
            row  == rows_read[i][2]
        IN  row.sample_status = "remove" =>
                IF TombstoneWellFormed(row)
                THEN TombstonePassed(row) /\ ~RowRejected(name, row)
                ELSE RowRejected(name, row) /\ ~TombstonePassed(row)

\* the input row is neither a tombstone nor has one of the three result codes
BadResultCode(row) ==
    row.sample_status # "remove" /\ row.result \notin {"POS", "NEG", "N/A"}

OtherFieldsValid(row) ==
    /\ row.sample_id \notin {NoCol, Null}
    /\ row.test_date \in DOMAIN DateOf
    /\ row.result \in {"POS", "NEG", "N/A"}
    /\ row.viral_load \in DOMAIN IntOf

\* C21: a row without a sample_status value, because its file has no
\* sample_status column or because its sample_status cell is empty, is
\* validated as a normal record and goes to the upsert with sample_status keep.
\* Fails: an empty cell is the value None, which Literal['keep', 'remove']
\* rejects; only a missing column takes the default.
C21_MissingStatusIsKeep ==
    \A i \in DOMAIN rows_read :
        LET name == rows_read[i][1]
            row  == rows_read[i][2]
        IN  (row.sample_status \in {NoCol, Null} /\ OtherFieldsValid(row)) =>
                /\ \E j \in DOMAIN all_valid_rows :
                      /\ all_valid_rows[j].sample_id = row.sample_id
                      /\ all_valid_rows[j].sample_status = "keep"
                /\ \A j \in DOMAIN all_error_rows : all_error_rows[j].row # row

\* the rule of field f is broken by the row
RuleBroken(row, f) ==
    CASE f = "sample_id"     -> row.sample_id \in {NoCol, Null}
      [] f = "test_date"     -> row.test_date \notin DOMAIN DateOf
      [] f = "result"        -> row.result \notin {"POS", "NEG", "N/A"}
      [] f = "viral_load"    -> row.viral_load \notin DOMAIN IntOf
      [] f = "sample_status" -> row.sample_status \notin {"keep", "remove", NoCol}

\* the fields whose rule the row breaks, in the order of the fields
BrokenRules(row) ==
    SelectSeq(<<"sample_id", "test_date", "result", "viral_load", "sample_status">>,
              LAMBDA f : RuleBroken(row, f))

\* C22 as stated: the pipeline_error of a rejected non-tombstone row carries
\* the message of the first failing rule only.
C22_Original ==
    \A j \in DOMAIN all_error_rows :
        all_error_rows[j].row.sample_status # "remove" =>
            all_error_rows[j].pipeline_error = <<Head(BrokenRules(all_error_rows[j].row))>>

\* C22: the pipeline_error of a rejected non-tombstone row carries the message
\* of every rule the row breaks, in the order of the fields: validation checks
\* all the fields and does not stop at the first failure.
C22_AllErrorsReported ==
    \A j \in DOMAIN all_error_rows :
        all_error_rows[j].row.sample_status # "remove" =>
            /\ all_error_rows[j].pipeline_error = BrokenRules(all_error_rows[j].row)
            /\ all_error_rows[j].pipeline_error # <<>>

\* a run has rejected a row that breaks two rules and has returned: the
\* quarantine artifact carries both messages
C22_Witness ==
    /\ pc = "done"
    /\ filename \in DOMAIN quarantine
    /\ \E j \in DOMAIN quarantine[filename] :
          /\ Len(BrokenRules(quarantine[filename][j].row)) = 2
          /\ Len(quarantine[filename][j].pipeline_error) = 2

\* C23: when the file the run is at cannot be parsed as CSV, the run
\* classifies no row of it, changes no store on its account (the file stays in
\* the landing zone) and goes on with the next listed file, or with the
\* quarantine step after the last one.
C23_UnparseableFileSkipped ==
    [][(pc = "download" /\ landing[blobs[idx]].kind = "garbage" /\ pc' # "failed") =>
          /\ UNCHANGED <<landing, quarantine, data, logs>>
          /\ UNCHANGED <<all_valid_rows, all_error_rows, rows_read>>
          /\ IF idx < Len(blobs)
             THEN pc' = "download" /\ idx' = idx + 1
             ELSE pc' = "quarantine"]_vars

\* a run that listed an unparseable a.csv and a parseable b.csv has returned:
\* a.csv is still in the landing zone, b.csv is deleted and its record is in a
\* partition
C23_Witness ==
    /\ pc = "done"
    /\ blobs = <<"a.csv", "b.csv">>
    /\ landing["a.csv"] = Garbage
    /\ landing["b.csv"] = Absent
    /\ \A i \in DOMAIN rows_read : rows_read[i][1] = "b.csv"
    /\ \E p \in DOMAIN data : data[p] # <<>>

\* processing_log has the entry <<kind, name>>
Logged(kind, name) ==
    \E i \in DOMAIN processing_log : processing_log[i] = <<kind, name>>

\* the request files the run has been through in its for loop
RequestsReadSoFar ==
    {deletion_blobs[i] : i \in {j \in DOMAIN deletion_blobs :
                                   dpc \in {"apply", "partitions", "done"} \/ j < del_idx}}

RequestedFor(path) ==
    LET deletions_df == Concat(all_deletions)
    IN  {deletions_df[i].sample_id :
            i \in {j \in DOMAIN deletions_df :
                      PartitionPath(deletions_df[j].test_date) = path}}

\* the run goes on from the partition `path` of its for loop
PartitionDone(path) ==
    /\ dpc = "partitions"
    /\ path \in del_partitions
    /\ del_partitions' = del_partitions \ {path}

C26_MissingColumnsSkipped ==
    [][(/\ dpc = "read"
        /\ requests[deletion_blobs[del_idx]].kind = "nocolumns"
        /\ dpc' # "failed") =>
          /\ all_deletions' = all_deletions
          /\ UNCHANGED <<data, requests>>
          /\ IF del_idx < Len(deletion_blobs)
             THEN dpc' = "read" /\ del_idx' = del_idx + 1
             ELSE dpc' = "apply"]_vars

\* a run that listed r.csv without the test_date column and a well-formed
\* s.csv has returned: the requests of s.csv were collected and s.csv removed,
\* and the record of S1, which r.csv names, is still stored
C26_Witness ==
    /\ dpc = "done"
    /\ deletion_blobs = <<"r.csv", "s.csv">>
    /\ requests["r.csv"] = NoColumns
    /\ Logged("skipped", "r.csv")
    /\ Logged("processed", "s.csv")
    /\ requests["s.csv"] = Absent
    /\ Concat(all_deletions) # <<>>
    /\ \E p \in DOMAIN data : "S1" \in SampleIdsOf(data[p])

\* the records of df whose sample_id is not requested for the partition
Remaining(df, path) ==
    LET keep(i) == df[i].sample_id \notin RequestedFor(path)
        F[i \in 0..Len(df)] ==
            IF i = 0 THEN <<>>
            ELSE IF keep(i) THEN Append(F[i - 1], df[i]) ELSE F[i - 1]
    IN  F[Len(df)]

\* C27: for each targeted partition whose object exists, the partition holds
\* afterwards exactly the records it held whose sample_id is not requested for
\* it, in their order; total_deleted grows by the number of records removed and
\* partitions_updated by one if that number is not 0 (only then is the object
\* rewritten); the log entry of the run reports both totals.
C27_PartitionFilteredExactly ==
    [][/\ \A path \in del_partitions :
             (PartitionDone(path) /\ path \in DOMAIN data) =>
                LET removed == Len(data[path]) - Len(Remaining(data[path], path))
                IN  /\ data'[path] = Remaining(data[path], path)
                    /\ total_deleted' = total_deleted + removed
                    /\ partitions_updated' =
                          partitions_updated + (IF removed > 0 THEN 1 ELSE 0)
       /\ (dpc = "partitions" /\ dpc' = "done") =>
             /\ del_log_entry'.rows_deleted = total_deleted
             /\ del_log_entry'.partitions_updated = partitions_updated]_vars

\* a run has removed the requested record of S1 from a partition that also
\* holds S2 and has returned with the counters 1 and 1
C27_Witness ==
    /\ dpc = "done"
    /\ del_log_entry.rows_deleted = 1
    /\ del_log_entry.partitions_updated = 1
    /\ \E p \in DOMAIN data :
          /\ "S1" \in RequestedFor(p)
          /\ SampleIdsOf(data[p]) = {"S2"}

\* C28: a deletion request (sample_id, test_date) affects only the partition of
\* its test_date: no step of a run of process_deletions adds or drops a
\* partition object, changes a partition that no request of the run targets, or
\* removes from a partition a record whose sample_id is not requested for that
\* partition, even if it is requested for another one.
C28_OnlyTargetPartition ==
    [][dpc # "idle" =>
          /\ DOMAIN data' = DOMAIN data
          /\ \A p \in DOMAIN data :
                /\ RequestedFor(p) = {} => data'[p] = data[p]
                /\ \A i \in DOMAIN data[p] :
                      data[p][i].sample_id \notin RequestedFor(p) =>
                          \E j \in DOMAIN data'[p] : data'[p][j] = data[p][i]]_vars

\* a run asked to delete S1 in one partition has removed it there and has
\* returned, and the record of S1 in another partition is still stored
C28_Witness ==
    /\ dpc = "done"
    /\ total_deleted = 1
    /\ \E p, q \in DOMAIN data :
          /\ p # q
          /\ RequestedFor(p) = {"S1"}
          /\ data[p] = <<>>
          /\ RequestedFor(q) = {}
          /\ "S1" \in SampleIdsOf(data[q])

\* the set of records of partition p in the store d, empty if p has no object
RecordSet(d, p) == IF p \in DOMAIN d THEN {d[p][i] : i \in DOMAIN d[p]} ELSE {}

\* the store after process_deletions has applied the one request (id, date) to
\* the store d (what C27 shows the run to do)
ByRequest(d, id, date) ==
    [p \in DOMAIN d |->
        IF p = DeletionPartitionPath(date) THEN FilterNotIn(d[p], {id}) ELSE d[p]]

\* C29: the two deletion channels are equivalent on the data: when a run of
\* process_pipeline ingests the single tombstone row (X, remove, d), every
\* partition holds afterwards the set of records that a deletion request (X, d)
\* processed by process_deletions would have left in it.
\* Fails: the upsert deduplicates the whole existing partition by sample_id, the
\* request does not; a partition created without deduplication differs after.
C29_ChannelsEquivalent ==
    [][(/\ pc = "upload"
        /\ pc' # "failed"
        /\ Len(all_valid_rows) = 1
        /\ all_valid_rows[1].sample_status = "remove") =>
          \A p \in DOMAIN data \cup DOMAIN data' :
              RecordSet(data', p) =
                  RecordSet(ByRequest(data, all_valid_rows[1].sample_id,
                                      all_valid_rows[1].test_date), p)]_vars


\* C30: for every date, process_deletions computes the same partition path as
\* process_pipeline: every collected deletion request gets the path the pipeline
\* gives its test_date, and a record (X, d) stored by the pipeline lies in the
\* partition that a request (X, d) of the run targets, with X among the ids to
\* delete there.
C30_SamePartitionPath ==
    LET deletions_df == Concat(all_deletions)
    IN  \A j \in DOMAIN deletions_df :
          /\ DeletionPartitionPath(deletions_df[j].test_date) =
                 PartitionPath(deletions_df[j].test_date)
          /\ \A p \in DOMAIN data : \A i \in DOMAIN data[p] :
                (/\ data[p][i].sample_id = deletions_df[j].sample_id
                 /\ data[p][i].test_date = deletions_df[j].test_date) =>
                    /\ DeletionPartitionPath(deletions_df[j].test_date) = p
                    /\ deletions_df[j].sample_id \in IdsToDelete(p)

\* C30 witness: a run is about to apply a request for S1 dated 2024-12-30, a
\* Monday of ISO week 1 of 2025, to the partition year=2024/week=1 where the
\* pipeline stored the record, while S1 also has a record in year=2025/week=1.
C30_Witness ==
    /\ dpc = "partitions"
    /\ <<2024, 1>> \in del_partitions
    /\ <<2024, 1>> \in DOMAIN data
    /\ <<2025, 1>> \in DOMAIN data
    /\ \E i \in DOMAIN data[<<2024, 1>>] :
          /\ data[<<2024, 1>>][i].sample_id = "S1"
          /\ data[<<2024, 1>>][i].test_date = <<2024, 12, 30>>
    /\ "S1" \in SampleIdsOf(data[<<2025, 1>>])
    /\ IdsToDelete(<<2024, 1>>) = {"S1"}
    /\ IdsToDelete(<<2025, 1>>) = {}


\* C31: the pipeline takes no lock on a partition: the upload of a partition
\* writes the object merged from the history the run has read, whatever the
\* partition holds by then, so a write made by another run between the read and
\* the upload is overwritten.
C31_LaterWriteOverwrites ==
    [][(pc = "upload" /\ pc' \in {"merge", "done"}) =>
          /\ part_path \in DOMAIN data'
          /\ data'[part_path] = final_df]_vars

\* C31 witness, a lost update: a process_deletions run has removed the record of
\* S1 from its partition and counted it, and a process_pipeline run that had read
\* the partition before, and whose batch has no row of S1, has written the
\* record back.
C31_Witness ==
    /\ pc = "done"
    /\ dpc = "done"
    /\ total_deleted = 1
    /\ "S1" \notin SampleIdsOf(all_valid_rows)
    /\ "S1" \in SampleIdsOf(history_df)
    /\ part_path \in DOMAIN data
    /\ "S1" \in RequestedFor(part_path)
    /\ "S1" \in SampleIdsOf(data[part_path])


\* C32: an upsert pass reads and writes only the partitions derived from the
\* test_dates of the batch's valid rows: the partition a run merges or uploads
\* is one of them, and every step of the run leaves every other partition as it
\* is and creates no other, so that a record of a re-ingested sample_id stays in
\* the partition of its old test_date.
C32_OnlyBatchPartitions ==
    [][(pc # "idle" /\ dpc = "idle") =>
          /\ pc \in {"merge", "upload"} =>
                part_path \in UniquePartitions(all_valid_rows)
          /\ \A p \in DOMAIN data' :
                p \notin UniquePartitions(all_valid_rows) => p \in DOMAIN data
          /\ \A p \in DOMAIN data :
                p \notin UniquePartitions(all_valid_rows) =>
                    p \in DOMAIN data' /\ data'[p] = data[p]]_vars

\* C32 witness: a run has ingested a row of S1 whose test_date maps to another
\* partition than the one that holds S1's record; both partitions now hold a
\* record of S1.
C32_Witness ==
    /\ pc = "done"
    /\ \E p, q \in DOMAIN data :
          /\ p # q
          /\ UniquePartitions(all_valid_rows) = {q}
          /\ SampleIdsOf(all_valid_rows) = {"S1"}
          /\ "S1" \in SampleIdsOf(data[p])
          /\ "S1" \in SampleIdsOf(data[q])


\* the store after a process_pipeline run has merged the valid rows `batch` into
\* the store d and uploaded every partition of the batch (MergePartition and
\* UploadPartition for each of them)
UpsertPass(d, batch) ==
    [p \in DOMAIN d \cup UniquePartitions(batch) |->
        IF p \notin UniquePartitions(batch) THEN d[p]
        ELSE IF p \in DOMAIN d THEN MergeExisting(d[p], NewBatch(batch, p)).final
        ELSE MergeNew(NewBatch(batch, p)).final]

\* C33: ingesting the same batch in two consecutive process_pipeline runs is
\* idempotent on the data: when a run has merged its batch and returned, a second
\* run on the same batch leaves every partition with the same set of records.
\* Fails: a partition created by the first run is not deduplicated, the second
\* run deduplicates it.
C33_SecondRunChangesNothing ==
    (pc = "done" /\ all_valid_rows # <<>>) =>
        \A p \in DOMAIN data :
            RecordSet(UpsertPass(data, all_valid_rows), p) = RecordSet(data, p)


\* C34: in every process_pipeline run rows_deleted counts the records that were
\* stored before the run and were removed by it: merging a partition adds to
\* rows_deleted the number of records of the partition's history whose sample_id
\* is not in the partition written, and a batch of tombstones whose sample_ids
\* are not stored in the partition adds nothing to rows_deleted or rows_inserted.
\* Fails: in an existing partition a tombstone of a sample_id that is not stored
\* counts as one insert and one deletion (lines 166-178).
C34_RowsDeletedCountsRemovals ==
    [][(pc = "merge" /\ pc' = "upload") =>
          LET history == IF part_path \in DOMAIN data THEN data[part_path] ELSE <<>>
              batch   == NewBatch(all_valid_rows, part_path)
              removed == {i \in DOMAIN history :
                             history[i].sample_id \notin SampleIdsOf(final_df')}
          IN  /\ log_entry'.rows_deleted =
                    log_entry.rows_deleted + Cardinality(removed)
              /\ (\A i \in DOMAIN batch :
                      /\ batch[i].sample_status = "remove"
                      /\ batch[i].sample_id \notin SampleIdsOf(history)) =>
                    /\ log_entry'.rows_deleted = log_entry.rows_deleted
                    /\ log_entry'.rows_inserted = log_entry.rows_inserted]_vars


\* C35 as stated: under repeated runs every file in the landing zone is
\* eventually deleted, so from some time on the landing zone is empty.
C35_Original ==
    <>[](\A n \in DOMAIN landing : landing[n] = Absent)

\* C35: under repeated process_pipeline runs, with no storage call failing for
\* ever, every file in the landing zone that parses as CSV is eventually deleted:
\* from some time on the landing zone holds nothing but unparseable files, which
\* no run deletes.
C35_ParseableFilesDeleted ==
    <>[](\A n \in DOMAIN landing : landing[n] \in {Absent, Garbage})

\* C35 witness: a run has read and deleted a file with a rejected row and has
\* returned, and the landing zone holds an unparseable file and nothing else
C35_Witness ==
    /\ pc = "done"
    /\ all_error_rows # <<>>
    /\ \E n, m \in DOMAIN landing :
          /\ landing[n] = Garbage
          /\ landing[m] = Absent
          /\ \E i \in DOMAIN rows_read : rows_read[i][1] = m


\* C36: whenever a process_deletions run ends, by its return or by an exception,
\* every request of every file the run removed from the queue has been applied:
\* if the partition the request targets exists, it holds no record of the
\* requested sample_id. (Stated for the runs in which every file whose requests
\* were collected was removed, no delete_blob() having raised.)
\* Fails: the files are removed while they are read, before the partition loop;
\* an exception in a later download or in the loop ends the run with the
\* requests consumed and not applied.
C36_ConsumedRequestsApplied ==
    (/\ dpc \in {"done", "failed"}
     /\ \A i \in DOMAIN deletion_blobs : ~Logged("error", deletion_blobs[i])) =>
        \A j \in DOMAIN Concat(all_deletions) :
            LET r == Concat(all_deletions)[j]
                p == DeletionPartitionPath(r.test_date)
            IN  p \in DOMAIN data => r.sample_id \notin SampleIdsOf(data[p])


\* the rows the run has parsed from the blob `name`
ReadFrom(name) ==
    LET of_name == SelectSeq(rows_read, LAMBDA e : e[1] = name)
    IN  [i \in DOMAIN of_name |-> of_name[i][2]]

\* C37: every content version uploaded to the landing zone is classified by a
\* run before it is deleted: the content that delete_blob() removes is a CSV
\* whose rows are the rows the run has parsed from that blob, also when the blob
\* was overwritten after the run's download.
\* Fails: delete_blob() removes by name whatever version is there.
C37_DeletedVersionClassified ==
    [][(/\ pc = "delete"
        /\ pc' \in {"download", "quarantine"}
        /\ landing'[blobs[idx]] # landing[blobs[idx]]) =>
          /\ landing[blobs[idx]].kind = "csv"
          /\ ReadFrom(blobs[idx]) = landing[blobs[idx]].rows]_vars


\* C38: process_deletions uses the test_date of a request only to select the
\* partition: when the run goes through a partition whose object exists, no
\* record is left in it whose sample_id a request names for that partition,
\* whatever the test_date of the record and of the request.
C38_RequestDateSelectsPartitionOnly ==
    [][\A path \in del_partitions :
          (PartitionDone(path) /\ path \in DOMAIN data) =>
              \A i \in DOMAIN data[path] :
                  (\E j \in DOMAIN Concat(all_deletions) :
                      LET q == Concat(all_deletions)[j]
                      IN  /\ q.sample_id = data[path][i].sample_id
                          /\ DeletionPartitionPath(q.test_date) = path) =>
                      data[path][i].sample_id \notin SampleIdsOf(data'[path])]_vars

\* C38 witness: every request of the run names S1 with 2025-01-08 and every
\* record stored is dated 2025-01-06; the run has removed the record of S1 from
\* the partition of that week, which still holds the record of S2, and returned.
C38_Witness ==
    /\ dpc = "done"
    /\ total_deleted = 1
    /\ Concat(all_deletions) # <<>>
    /\ \A j \in DOMAIN Concat(all_deletions) :
          Concat(all_deletions)[j] = [sample_id |-> "S1", test_date |-> <<2025, 1, 8>>]
    /\ <<2025, 2>> \in DOMAIN data
    /\ SampleIdsOf(data[<<2025, 2>>]) = {"S2"}
    /\ \A i \in DOMAIN data[<<2025, 2>>] :
          data[<<2025, 2>>][i].test_date = <<2025, 1, 6>>


\* C39: when a corrected quarantine file is promoted, the quarantine blob is
\* deleted only after the corrected file has been uploaded to the landing zone
\* (a quarantine blob disappears only in the step after the upload of the file
\* of its name, by process_reingest or by the dashboard); process_reingest
\* uploads only a file whose every row passes LabResult validation; and when a
\* row fails, process_reingest leaves the landing zone and the quarantine store
\* unchanged.
C39_PromotionOrder ==
    [][/\ \A q \in DOMAIN quarantine :
             q \notin DOMAIN quarantine' =>
                 /\ rpc \in {"uploaded", "promoted"}
                 /\ q = QuarantineBlob(fix_file.name)
       /\ (rpc = "validate" /\ rpc' = "uploaded") =>
             /\ \A i \in DOMAIN fix_file.content.rows :
                   LabResultErrors(fix_file.content.rows[i]) = <<>>
             /\ landing'[fix_file.name] = fix_file.content
       /\ (/\ rpc = "validate"
           /\ rpc' # rpc
           /\ \E i \in DOMAIN fix_file.content.rows :
                 LabResultErrors(fix_file.content.rows[i]) # <<>>) =>
             /\ rpc' = "idle"
             /\ landing' = landing
             /\ quarantine' = quarantine]_vars

\* C39 witness: a run has quarantined a row, process_reingest has uploaded the
\* corrected file to the landing zone under the name of the quarantine blob and
\* has then deleted the blob
C39_Witness ==
    /\ rpc = "deleted"
    /\ pc = "idle"
    /\ quarantine = <<>>
    /\ landing[fix_file.name] = fix_file.content
    /\ fix_file.content.rows # <<>>
    /\ \E n \in DOMAIN logs : logs[n].rows_quarantined > 0

=============================================================================
